---- MODULE Spec2Model ----
(***************************************************************************)
(* Model of khan-academy-extractor: the Progress Merger (update_csv and    *)
(* update_record in csv_operations.rs) and the Key Decoder (decode_base64, *)
(* extract_quiz_attempts, extract_unit_test_attempts in extractors.rs,     *)
(* called from process_json_files in json_operations.rs).                  *)
(*                                                                         *)
(* update_csv is one sequential function; pc is its position (which of    *)
(* its loops it is in) and every step applies one source record to the     *)
(* in-memory rows, exactly one loop iteration of the source.               *)
(***************************************************************************)
EXTENDS Integers, Sequences, FiniteSets, TLC

VARIABLES
    header,     \* header line of the CSV file on disk (<<>> when it has none)
    file,       \* rows of the CSV file on disk (below its header line)
    reader,     \* update_csv: `reader`, with the header it cached and the rows it yielded
    records,    \* update_csv: `records`, the rows read into memory
    pc,         \* position of update_csv
    n,          \* iterations done so far by the loops of update_csv
    cur,        \* the source record applied by the latest iteration
    before,     \* `records` as it was when that iteration began
    written,    \* per row and column: highest-numbered phase that wrote it, and its latest value
    token,      \* Key Decoder: the opaque token of the attempt being extracted
    dpc,        \* Key Decoder: position in process_json_files
    dres,       \* Key Decoder: the outcome of the extraction
    course_content, \* Tree Flattener: the curriculum document given to extract_course
    fres,       \* Tree Flattener: the Result of extract_course
    disk,       \* the output path: whether its directory exists, whether a file is there
    files,      \* main: `files`, the names list_files_in_directory returned
    file_contents \* main: the contents find_and_read_json_file(s) returned

vars == <<header, file, reader, records, pc, n, cur, before, written, token, dpc, dres,
          course_content, fres, disk, files, file_contents>>

mergeVars == <<header, file, reader, records, pc, n, cur, before, written>>
decodeVars == <<token, dpc, dres>>
flattenVars == <<course_content, fres>>
mainVars == <<disk, files, file_contents>>

(***************************************************************************)
(* Bounds of the model.                                                    *)
(***************************************************************************)
MaxRows == 2        \* rows of the table (below the header)
MaxRecords == 2     \* source records applied by the loops of one run of update_csv
MaxTokenLen == 4    \* characters of an attempt's token (position_key or id)

(***************************************************************************)
(* Unsigned 32-bit arithmetic and decimal formatting.                      *)
(***************************************************************************)
\* u32 values are handled as two 16-bit limbs where they may exceed 2^31.
Limb == 65536

Digit(d) == CASE d = 0 -> "0" [] d = 1 -> "1" [] d = 2 -> "2" [] d = 3 -> "3"
              [] d = 4 -> "4" [] d = 5 -> "5" [] d = 6 -> "6" [] d = 7 -> "7"
              [] d = 8 -> "8" [] d = 9 -> "9"

\* u32::to_string of the value hi * 2^16 + lo: decimal digits, most significant
\* first, no leading zeros, by repeated division by ten.
RECURSIVE LimbsToString(_, _)
LimbsToString(hi, lo) ==
    IF hi = 0
    THEN IF lo < 10 THEN Digit(lo)
                    ELSE LimbsToString(0, lo \div 10) \o Digit(lo % 10)
    ELSE LET t == (hi % 10) * Limb + lo
         IN  LimbsToString(hi \div 10, t \div 10) \o Digit(t % 10)

to_string(v) == LimbsToString(v \div Limb, v % Limb)

\* a - c on u32 without overflow checks (release profile): the difference modulo 2^32.
wrapping_sub(a, c) ==
    LET lo     == (a % Limb) - (c % Limb)
        borrow == IF lo < 0 THEN 1 ELSE 0
        hi     == (a \div Limb) - (c \div Limb) - borrow
    IN  <<(hi + Limb) % Limb, (lo + Limb) % Limb>>

\* The ways `a - c` on u32 can end: the difference; or, when c > a, a panic
\* (overflow checks on, the dev profile) or the wrapped value (release profile).
SubOutcomes(a, c) ==
    IF c <= a
    THEN {[panic |-> FALSE, text |-> to_string(a - c)]}
    ELSE {[panic |-> TRUE, text |-> ""],
          [panic |-> FALSE,
           text |-> LimbsToString(wrapping_sub(a, c)[1], wrapping_sub(a, c)[2])]}

(***************************************************************************)
(* Input domains.                                                          *)
(***************************************************************************)
\* Option<T>: None is the empty sequence, Some(v) the sequence holding v.
None == <<>>
Some(v) == <<v>>
IsSome(o) == o # <<>>
Unwrap(o) == o[1]
OptionOf(S) == {None} \cup {Some(v) : v \in S}

U32Inputs == {3, 5}

\* str::parse::<u32> of a string produced by to_string of an input value.
parse_u32(s) == CHOOSE v \in U32Inputs : to_string(v) = s

\* One row as extract_info creates it and append_data_to_csv writes it: the
\* 13 identity columns, then the 7 progress columns, all None, written empty.
MkRow(id, type_name, progress_key, parent_topic, parent_id) ==
    <<id, type_name, "1", "title", "slug", "/url", progress_key, parent_topic,
      parent_id, "ptype", "ptitle", "pslug", "/purl",
      "", "", "", "", "", "", "">>

\* A course row; a quiz row whose parent topic (u) is neither its id nor its
\* structural parent (c); a unit-test row under u carrying no parent topic.
RowInputs ==
    { MkRow("c", "Course", "", "", ""),
      MkRow("q", "TopicQuiz", "k", "u", "c"),
      MkRow("t", "TopicUnitTest", "k", "", "u") }

RECURSIVE SeqsUpTo(_, _)
SeqsUpTo(S, k) ==
    IF k = 0 THEN {<<>>}
    ELSE LET shorter == SeqsUpTo(S, k - 1)
         IN  shorter \cup {Append(s, x) : s \in shorter, x \in S}

TableInputs == SeqsUpTo(RowInputs, MaxRows)

\* The concatenation of a sequence of sequences.
RECURSIVE Concat(_)
Concat(seqs) == IF seqs = <<>> THEN <<>> ELSE Head(seqs) \o Concat(Tail(seqs))

MasteryV2Inputs == {[percentage |-> 7, points_earned |-> 1200]}

MasteryMapInputs ==
    {[progress_key |-> k, status |-> "PROFICIENT"] : k \in {"k", "zz"}}

UnitProgressInputs ==
    {[unit_id |-> u, current_mastery_v2 |-> [percentage |-> 50, points_earned |-> 400]]
        : u \in {"c", "zz"}}

BestScoreInputs ==
    OptionOf({[num_attempted |-> a, num_correct |-> c]
                 : a \in OptionOf(U32Inputs), c \in OptionOf(U32Inputs)})

ItemProgressInputs ==
    {[progress_key |-> k, completion_status |-> "COMPLETE", best_score |-> b]
        : k \in {"k", "zz"}, b \in BestScoreInputs}

AttemptInputs ==
    {[parent_id |-> p, is_completed |-> d, num_attempted |-> a, num_correct |-> c]
        : p \in {"u", "zz"}, d \in BOOLEAN, a \in U32Inputs, c \in U32Inputs}

NoRecord == [kind |-> "none"]

(***************************************************************************)
(* csv_operations.rs                                                       *)
(***************************************************************************)
\* StringRecord::get(i): the field at 0-based index i.
Get(record, i) == record[i + 1]

\* The header line: the serialized names of DataStruct's fields, in order.
Header ==
    <<"id", "typeName", "order", "title", "slug", "relativeUrl", "progressKey",
      "parentTopic", "parentId", "parentType", "parentTitle", "parentSlug",
      "parentRelativeUrl", "percentage", "pointsEarned", "status",
      "completionStatus", "numAttempted", "numCorrect", "numIncorrect">>

\* The cell of a row under the header's column `name`.
Field(record, name) == record[CHOOSE k \in 1..Len(Header) : Header[k] = name]

\* updates.iter().find(|(index, _)| index == i): first update naming column i, 0 if none.
RECURSIVE FindUpdate(_, _, _)
FindUpdate(updates, i, k) ==
    IF k > Len(updates) THEN 0
    ELSE IF updates[k][1] = i THEN k
    ELSE FindUpdate(updates, i, k + 1)

\* Variant: an instruction for index i lands in the column after it.
update_record_Shifted(record, updates) ==
    [j \in 1..Len(record) |->
        LET k == FindUpdate(updates, j - 2, 1)
        IN  IF k # 0 THEN updates[k][2] ELSE record[j]]

\* The new value of *record: for each i in 0..record.len(), the value of the
\* first instruction naming i, else record.get(i).
update_record(record, updates) ==
    [j \in 1..Len(record) |->
        LET k == FindUpdate(updates, j - 1, 1)
        IN  IF k # 0 THEN updates[k][2] ELSE record[j]]

\* The Result update_record returns: the only `?` is on record.get(i) of a
\* column i in 0..record.len() that no instruction names.
update_record_result(record, updates) ==
    IF \E i \in 0..(Len(record) - 1) :
          FindUpdate(updates, i, 1) = 0 /\ (i + 1) \notin DOMAIN record
    THEN [kind |-> "err", error |-> "MissingField"]
    ELSE [kind |-> "ok"]

\* Variant: the lookup keeps the last matching index instead of the first.
RECURSIVE FindFirst_Last(_, _)
FindFirst_Last(flags, i) ==
    IF i > Len(flags) THEN 0
    ELSE IF FindFirst_Last(flags, i + 1) # 0 THEN FindFirst_Last(flags, i + 1)
    ELSE IF flags[i] THEN i
    ELSE 0

\* Iterator::find over a sequence of match flags: the first index whose flag is
\* TRUE, 0 when there is none.
RECURSIVE FindFirst(_, _)
FindFirst(flags, i) ==
    IF i > Len(flags) THEN 0
    ELSE IF flags[i] THEN i
    ELSE FindFirst(flags, i + 1)

\* Variant: the unit lookup compares the row's parent id (column 8).
UnitMatches_ByParentId(record, item) == Get(record, 8) = item.unit_id

MasteryMapMatches(record, item) == Get(record, 6) = item.progress_key

UnitMatches(record, item) == Get(record, 0) = item.unit_id

\* Variant: an item looks only for a row whose completion status is empty.
ItemMatches_Unfinished(record, item) ==
    Get(record, 6) = item.progress_key /\ Get(record, 16) = ""

ItemMatches(record, item) == Get(record, 6) = item.progress_key

\* Variant: the quiz lookup compares the row's own id (column 0).
QuizMatches_ById(record, attempt) ==
    Get(record, 0) = attempt.parent_id /\ Get(record, 1) = "TopicQuiz"

QuizMatches(record, attempt) ==
    Get(record, 7) = attempt.parent_id /\ Get(record, 1) = "TopicQuiz"

\* Variant: the unit-test lookup compares the column the quiz lookup uses (column 7).
TestMatches_LikeQuiz(record, attempt) ==
    Get(record, 7) = attempt.parent_id /\ Get(record, 1) = "TopicUnitTest"

TestMatches(record, attempt) ==
    Get(record, 8) = attempt.parent_id /\ Get(record, 1) = "TopicUnitTest"

Matches(record, r) ==
    CASE r.kind = "mastery_map"   -> MasteryMapMatches(record, r)
      [] r.kind = "unit_progress" -> UnitMatches(record, r)
      [] r.kind = "items"         -> ItemMatches(record, r)
      [] r.kind = "quizzes"       -> QuizMatches(record, r)
      [] r.kind = "tests"         -> TestMatches(record, r)

\* records.iter_mut().find(...): index of the row the record is applied to, 0 if none.
FindRow(recs, r) == FindFirst([i \in 1..Len(recs) |-> Matches(recs[i], r)], 1)

(***************************************************************************)
(* extractors.rs: the Key Decoder.  A token is a sequence of characters,   *)
(* each given by its value in the standard base64 alphabet (0..63), or Pad *)
(* for '=', or NotInAlphabet for any other character.  A decoded string is *)
(* the sequence of its code points.                                        *)
(***************************************************************************)
Pad == 64
NotInAlphabet == 65

\* while key.len() % 4 != 0 { key.push('=') }
RECURSIVE PadKey(_)
PadKey(key) == IF Len(key) % 4 # 0 THEN PadKey(Append(key, Pad)) ELSE key

\* Number of leading characters of key that are not '='.
RECURSIVE DataLen(_, _)
DataLen(key, k) ==
    IF k > Len(key) THEN Len(key)
    ELSE IF key[k] = Pad THEN k - 1
    ELSE DataLen(key, k + 1)

\* What STANDARD.decode accepts: alphabet characters, then canonical padding
\* to a multiple of four, the unused bits of the last character zero.
ValidBase64(key) ==
    LET d == DataLen(key, 1)
        p == Len(key) - d
    IN  /\ Len(key) % 4 = 0
        /\ \A k \in 1..d : key[k] < Pad
        /\ \A k \in (d + 1)..Len(key) : key[k] = Pad
        /\ d % 4 # 1
        /\ d % 4 = 0 => p = 0
        /\ d % 4 = 2 => (p = 2 /\ key[d] % 16 = 0)
        /\ d % 4 = 3 => (p = 1 /\ key[d] % 4 = 0)

\* The bytes of the 6-bit values of data, four values to three bytes.
RECURSIVE DecodeSextets(_)
DecodeSextets(data) ==
    IF Len(data) < 2 THEN <<>>
    ELSE LET b0 == data[1] * 4 + data[2] \div 16
         IN  IF Len(data) = 2 THEN <<b0>>
             ELSE LET b1 == (data[2] % 16) * 16 + data[3] \div 4
                  IN  IF Len(data) = 3 THEN <<b0, b1>>
                      ELSE <<b0, b1, (data[3] % 4) * 64 + data[4]>>
                               \o DecodeSextets(SubSeq(data, 5, Len(data)))

\* String::from_utf8_lossy on bytes: an ASCII byte is its own code point; a byte
\* that starts no valid sequence is replaced by U+FFFD.
from_utf8_lossy(bytes) ==
    [k \in 1..Len(bytes) |-> IF bytes[k] < 128 THEN bytes[k] ELSE 65533]

Ok(v) == [kind |-> "ok", value |-> v]
Err == [kind |-> "err"]
Panic == [kind |-> "panic"]

decode_base64(position_key) ==
    LET key == PadKey(position_key)
    IN  IF ~ValidBase64(key) THEN Err
        ELSE Ok(from_utf8_lossy(DecodeSextets(SubSeq(key, 1, DataLen(key, 1)))))

\* str::find(ch): Some(0-based offset of the first occurrence), or None.
RECURSIVE FindFrom(_, _, _)
FindFrom(str, ch, k) ==
    IF k > Len(str) THEN None
    ELSE IF str[k] = ch THEN Some(k - 1)
    ELSE FindFrom(str, ch, k + 1)

find(str, ch) == FindFrom(str, ch, 1)

\* str[begin..end]: panics when begin > end or end > len.
Slice(str, begin, end) ==
    IF begin > end \/ end > Len(str) THEN Panic
    ELSE Ok(SubSeq(str, begin + 1, end))

\* decoded_str[decoded_str.find(start).unwrap() + 1..decoded_str.find('\u{c}').unwrap()]
ParentId(decoded_str, start) ==
    IF ~IsSome(find(decoded_str, start)) THEN Panic
    ELSE IF ~IsSome(find(decoded_str, 12)) THEN Panic
    ELSE Slice(decoded_str, Unwrap(find(decoded_str, start)) + 1,
               Unwrap(find(decoded_str, 12)))

\* The closure of extract_quiz_attempts applied to one attempt.
extract_quiz_attempts(position_key) ==
    IF decode_base64(position_key).kind = "err" THEN Err
    ELSE ParentId(decode_base64(position_key).value, 17)

\* The closure of extract_unit_test_attempts applied to one attempt.
extract_unit_test_attempts(id) ==
    IF decode_base64(id).kind = "err" THEN Err
    ELSE ParentId(decode_base64(id).value, 58)

TokenSymbols == {1, 3, 4, 5, 12, 20, 40, NotInAlphabet}

\* Tokens whose decoded bytes, when they decode, are ASCII.
TokenInputs ==
    {t \in SeqsUpTo(TokenSymbols, MaxTokenLen) :
        ValidBase64(PadKey(t)) =>
            \A k \in 1..Len(decode_base64(t).value) : decode_base64(t).value[k] < 128}

NoToken == [kind |-> "none", key |-> <<>>]

ExtractQuizAttempts ==
    /\ dpc = "extract"
    /\ token.kind = "quiz"
    /\ dres' = extract_quiz_attempts(token.key)
    /\ dpc' = IF dres'.kind = "panic" THEN "panic" ELSE "unwrap"
    /\ UNCHANGED <<token, mergeVars, flattenVars, mainVars>>

ExtractUnitTestAttempts ==
    /\ dpc = "extract"
    /\ token.kind = "test"
    /\ dres' = extract_unit_test_attempts(token.key)
    /\ dpc' = IF dres'.kind = "panic" THEN "panic" ELSE "unwrap"
    /\ UNCHANGED <<token, mergeVars, flattenVars, mainVars>>

\* process_json_files: `.unwrap()` on the extraction's Result.
ProcessJsonFilesUnwrap ==
    /\ dpc = "unwrap"
    /\ dpc' = IF dres.kind = "err" THEN "panic" ELSE "done"
    /\ UNCHANGED <<token, dres, mergeVars, flattenVars, mainVars>>

DecodeInit ==
    /\ token \in {[kind |-> k, key |-> t] : k \in {"quiz", "test"}, t \in TokenInputs}
    /\ dpc = "extract"
    /\ dres = NoRecord
    /\ header = <<>>
    /\ file = <<>>
    /\ reader = [headers |-> <<>>, rows |-> <<>>]
    /\ records = <<>>
    /\ pc = "idle"
    /\ n = 0
    /\ cur = NoRecord
    /\ before = <<>>
    /\ written = <<>>
    /\ course_content = NoRecord
    /\ disk = [dir |-> TRUE, exists |-> TRUE]
    /\ files = <<>>
    /\ file_contents = NoRecord
    /\ fres = NoRecord

DecodeNext ==
    \/ ExtractQuizAttempts
    \/ ExtractUnitTestAttempts
    \/ ProcessJsonFilesUnwrap

DecodeSpec == DecodeInit /\ [][DecodeNext]_vars

(***************************************************************************)
(* update_csv                                                              *)
(***************************************************************************)
\* Variant: the quiz loop is placed before the content-item loop.
After_QuizzesBeforeItems(p) ==
    CASE p = "read"          -> "mastery_v2"
      [] p = "mastery_v2"    -> "mastery_map"
      [] p = "mastery_map"   -> "unit_progress"
      [] p = "unit_progress" -> "quizzes"
      [] p = "quizzes"       -> "items"
      [] p = "items"         -> "tests"
      [] p = "tests"         -> "write"
      [] p = "write"         -> "done"

\* The order of update_csv's statements: read, the six phases, write back.
After(p) ==
    CASE p = "read"          -> "mastery_v2"
      [] p = "mastery_v2"    -> "mastery_map"
      [] p = "mastery_map"   -> "unit_progress"
      [] p = "unit_progress" -> "items"
      [] p = "items"         -> "quizzes"
      [] p = "quizzes"       -> "tests"
      [] p = "tests"         -> "write"
      [] p = "write"         -> "done"

\* The number the merge steps carry in the specification (1 to 6).
PhaseNo(kind) ==
    CASE kind = "mastery_v2"    -> 1
      [] kind = "mastery_map"   -> 2
      [] kind = "unit_progress" -> 3
      [] kind = "items"         -> 4
      [] kind = "quizzes"       -> 5
      [] kind = "tests"         -> 6

ProgressColumns == 13..19

MasteryUpdates(m) ==
    << <<13, to_string(m.percentage)>>, <<14, to_string(m.points_earned)>> >>

\* Variant: the mastery level goes to the completion status (column 16).
MasteryMapUpdates_Completion(item) == << <<16, item.status>> >>

MasteryMapUpdates(item) == << <<15, item.status>> >>

\* best_score.and_then(|bs| bs.num_attempted).map(|v| v.to_string())
ItemNumAttempted(item) ==
    IF ~IsSome(item.best_score) THEN None
    ELSE IF ~IsSome(Unwrap(item.best_score).num_attempted) THEN None
    ELSE Some(to_string(Unwrap(Unwrap(item.best_score).num_attempted)))

ItemNumCorrect(item) ==
    IF ~IsSome(item.best_score) THEN None
    ELSE IF ~IsSome(Unwrap(item.best_score).num_correct) THEN None
    ELSE Some(to_string(Unwrap(Unwrap(item.best_score).num_correct)))

\* Variant: an absent operand counts as zero, so a partial pair yields a number.
ItemIncorrectOutcomes_Partial(item) ==
    IF ~IsSome(ItemNumAttempted(item)) /\ ~IsSome(ItemNumCorrect(item))
    THEN {[panic |-> FALSE, text |-> None]}
    ELSE {[panic |-> o.panic, text |-> Some(o.text)]
            : o \in SubOutcomes(
                  IF IsSome(ItemNumAttempted(item))
                  THEN parse_u32(Unwrap(ItemNumAttempted(item))) ELSE 0,
                  IF IsSome(ItemNumCorrect(item))
                  THEN parse_u32(Unwrap(ItemNumCorrect(item))) ELSE 0)}

\* The outcomes of computing num_incorrect for a content item: None unless both
\* strings are present, else the outcomes of the u32 subtraction of their parses.
ItemIncorrectOutcomes(item) ==
    IF ~IsSome(ItemNumAttempted(item)) \/ ~IsSome(ItemNumCorrect(item))
    THEN {[panic |-> FALSE, text |-> None]}
    ELSE {[panic |-> o.panic, text |-> Some(o.text)]
            : o \in SubOutcomes(parse_u32(Unwrap(ItemNumAttempted(item))),
                                parse_u32(Unwrap(ItemNumCorrect(item))))}

\* Option<String>::as_deref().unwrap_or("")
UnwrapOrEmpty(o) == IF IsSome(o) THEN Unwrap(o) ELSE ""

ItemUpdates(item, num_incorrect) ==
    << <<16, item.completion_status>>,
       <<17, UnwrapOrEmpty(ItemNumAttempted(item))>>,
       <<18, UnwrapOrEmpty(ItemNumCorrect(item))>>,
       <<19, UnwrapOrEmpty(num_incorrect)>> >>

Completed(attempt) == IF attempt.is_completed THEN "COMPLETE" ELSE "UNCOMPLETED"

AttemptUpdates(attempt, num_incorrect) ==
    << <<16, Completed(attempt)>>,
       <<17, to_string(attempt.num_attempted)>>,
       <<18, to_string(attempt.num_correct)>>,
       <<19, num_incorrect>> >>

\* The outcomes of the statements inside `if let Some(record)` before update_record.
IncorrectOutcomes(r) ==
    CASE r.kind = "items" -> ItemIncorrectOutcomes(r)
      [] r.kind \in {"quizzes", "tests"} -> SubOutcomes(r.num_attempted, r.num_correct)
      [] OTHER -> {[panic |-> FALSE, text |-> None]}

Updates(r, num_incorrect) ==
    CASE r.kind = "mastery_v2"    -> MasteryUpdates(r)
      [] r.kind = "mastery_map"   -> MasteryMapUpdates(r)
      [] r.kind = "unit_progress" -> MasteryUpdates(r.current_mastery_v2)
      [] r.kind = "items"         -> ItemUpdates(r, num_incorrect)
      [] r.kind \in {"quizzes", "tests"} -> AttemptUpdates(r, num_incorrect)

\* Variant: a record that finds no row is applied to row 0.
Target_DefaultFirst(recs, r) ==
    IF r.kind = "mastery_v2" \/ FindRow(recs, r) = 0
    THEN (IF Len(recs) > 0 THEN 1 ELSE 0)
    ELSE FindRow(recs, r)

\* Variant: the overall mastery goes to the last row of the table.
Target_LastRow(recs, r) ==
    IF r.kind = "mastery_v2" THEN Len(recs)
    ELSE FindRow(recs, r)

\* The row a source record is applied to: row 0 for the overall mastery (if the
\* table has a row), else the first row the record's predicate finds; 0 if none.
Target(recs, r) ==
    IF r.kind = "mastery_v2" THEN (IF Len(recs) > 0 THEN 1 ELSE 0)
    ELSE FindRow(recs, r)

\* Variant: the lookup's result is unwrapped, so a record without a row panics.
Iteration_UnwrapMatch(recs, r) ==
    LET i == Target(recs, r)
    IN  IF i = 0
        THEN {[panic |-> TRUE, row |-> 0, updates |-> <<>>]}
        ELSE {[panic |-> o.panic, row |-> i, updates |-> Updates(r, o.text)]
                : o \in IncorrectOutcomes(r)}

\* One iteration of a loop of update_csv (or its first statement, for the
\* overall mastery) with source record r, on rows recs: the ways it can end.
\* Without a target row the body of `if let Some(record)` is skipped; with one,
\* the row is given to update_record unless the subtraction panics.
Iteration(recs, r) ==
    LET i == Target(recs, r)
    IN  IF i = 0
        THEN {[panic |-> FALSE, row |-> 0, updates |-> <<>>]}
        ELSE {[panic |-> o.panic, row |-> i, updates |-> Updates(r, o.text)]
                : o \in IncorrectOutcomes(r)}

\* History only: per progress cell, the phases that wrote it, the
\* highest-numbered of them, and the latest value that one wrote.
NoWrites == [phase |-> 0, val |-> "", phases |-> {}]

NoteWrites(w, i, r, updates) ==
    [w EXCEPT ![i] =
        [c \in ProgressColumns |->
            LET k == FindUpdate(updates, c, 1)
            IN  IF k = 0 \/ c >= Len(records[i]) THEN w[i][c]
                ELSE IF PhaseNo(r.kind) >= w[i][c].phase
                THEN [phase |-> PhaseNo(r.kind), val |-> updates[k][2],
                      phases |-> w[i][c].phases \cup {PhaseNo(r.kind)}]
                ELSE [w[i][c] EXCEPT !.phases = @ \cup {PhaseNo(r.kind)}]]]

\* Variant: each phase writes the rows through to the file as it goes.
Apply_WriteThrough(r, next) ==
    /\ cur' = r
    /\ before' = records
    /\ UNCHANGED <<header, reader, decodeVars, flattenVars, mainVars>>
    /\ \E o \in Iteration(records, r) :
         IF o.panic
         THEN /\ pc' = "panic"
              /\ UNCHANGED <<records, written, file>>
         ELSE IF o.row = 0
         THEN /\ pc' = next
              /\ UNCHANGED <<records, written, file>>
         ELSE /\ records' = [records EXCEPT ![o.row] = update_record(@, o.updates)]
              /\ file' = records'
              /\ written' = NoteWrites(written, o.row, r, o.updates)
              /\ pc' = next

\* The body of one phase statement of update_csv on the in-memory `records`:
\* the file is not touched.
Apply(r, next) ==
    /\ cur' = r
    /\ before' = records
    /\ UNCHANGED <<header, file, reader, decodeVars, flattenVars, mainVars>>
    /\ \E o \in Iteration(records, r) :
         IF o.panic
         THEN /\ pc' = "panic"
              /\ UNCHANGED <<records, written>>
         ELSE IF o.row = 0
         THEN /\ pc' = next
              /\ UNCHANGED <<records, written>>
         ELSE /\ records' = [records EXCEPT ![o.row] = update_record(@, o.updates)]
              /\ written' = NoteWrites(written, o.row, r, o.updates)
              /\ pc' = next

Tag(kind, r) == [kind |-> kind] @@ r

\* ReaderBuilder::new().has_headers(true).from_path(filename)?, and
\* reader.records().collect()?: the first line is kept by the reader as the
\* header, the lines below it are the records.
ReadCsv ==
    /\ pc = "read"
    /\ reader' = [headers |-> header, rows |-> file]
    /\ records' = file
    /\ pc' = After(pc)
    /\ UNCHANGED <<header, file, n, cur, before, written, decodeVars, flattenVars, mainVars>>

OverallMastery ==
    /\ pc = "mastery_v2"
    /\ \E m \in MasteryV2Inputs :
         Apply(Tag("mastery_v2", m), After(pc))
    /\ UNCHANGED n

\* One iteration of the loop update_csv is in.
LoopStep(kind, inputs) ==
    /\ pc = kind
    /\ n < MaxRecords
    /\ n' = n + 1
    /\ \E r \in inputs : Apply(Tag(kind, r), pc)

MasteryMapStep == LoopStep("mastery_map", MasteryMapInputs)
UnitProgressStep == LoopStep("unit_progress", UnitProgressInputs)
ItemStep == LoopStep("items", ItemProgressInputs)
QuizStep == LoopStep("quizzes", AttemptInputs)
TestStep == LoopStep("tests", AttemptInputs)

\* The loop update_csv is in has consumed its whole input.
LoopEnd ==
    /\ pc \in {"mastery_map", "unit_progress", "items", "quizzes", "tests"}
    /\ pc' = After(pc)
    /\ cur' = NoRecord
    /\ before' = records
    /\ UNCHANGED <<header, file, reader, records, n, written, decodeVars, flattenVars, mainVars>>

\* The write-back, statement by statement.  While the writer is open, header
\* and file are what has been handed to it, which is what the disk holds once
\* the writer is flushed or dropped.
\*
\* WriterBuilder::new().from_path(filename)?: File::create truncates the file.
OpenWriter ==
    /\ pc = "write"
    /\ header' = <<>>
    /\ file' = <<>>
    /\ pc' = "write_header"
    /\ UNCHANGED <<reader, records, n, cur, before, written, decodeVars, flattenVars, mainVars>>

\* Variant: the header line is not written.
WriteHeader_Skipped ==
    /\ pc = "write_header"
    /\ pc' = "write_records"
    /\ UNCHANGED <<header, file, reader, records, n, cur, before, written, decodeVars, flattenVars, mainVars>>

\* writer.write_byte_record(reader.headers()?.as_byte_record())?
WriteHeader ==
    /\ pc = "write_header"
    /\ header' = reader.headers
    /\ pc' = "write_records"
    /\ UNCHANGED <<file, reader, records, n, cur, before, written, decodeVars, flattenVars, mainVars>>

\* One iteration of `for record in records { writer.write_record(&record)?; }`
WriteRecord ==
    /\ pc = "write_records"
    /\ Len(file) < Len(records)
    /\ file' = Append(file, records[Len(file) + 1])
    /\ UNCHANGED <<header, reader, records, pc, n, cur, before, written, decodeVars, flattenVars, mainVars>>

\* writer.flush()?; Ok(())
Flush ==
    /\ pc = "write_records"
    /\ Len(file) = Len(records)
    /\ pc' = After("write")
    /\ UNCHANGED <<header, file, reader, records, n, cur, before, written, decodeVars, flattenVars, mainVars>>

\* An I/O error in one of the statements of the write-back: `?` returns it, and
\* the file keeps what it held.
WriteFails ==
    /\ pc \in {"write", "write_header", "write_records"}
    /\ pc' = "error"
    /\ UNCHANGED <<header, file, reader, records, n, cur, before, written, decodeVars, flattenVars, mainVars>>

MergeInit ==
    /\ header = Header
    /\ file \in TableInputs
    /\ reader = [headers |-> <<>>, rows |-> <<>>]
    /\ records = <<>>
    /\ pc = "read"
    /\ n = 0
    /\ cur = NoRecord
    /\ before = <<>>
    /\ written = [i \in 1..Len(file) |-> [c \in ProgressColumns |-> NoWrites]]
    /\ token = NoToken
    /\ dpc = "idle"
    /\ dres = NoRecord
    /\ course_content = NoRecord
    /\ disk = [dir |-> TRUE, exists |-> TRUE]
    /\ files = <<>>
    /\ file_contents = NoRecord
    /\ fres = NoRecord

Init == MergeInit

Next ==
    \/ ReadCsv
    \/ OverallMastery
    \/ MasteryMapStep
    \/ UnitProgressStep
    \/ ItemStep
    \/ QuizStep
    \/ TestStep
    \/ LoopEnd
    \/ OpenWriter
    \/ WriteHeader
    \/ WriteRecord
    \/ Flush
    \/ WriteFails

Spec == Init /\ [][Next]_vars

(***************************************************************************)
(* update_csv as one call, run twice with the same six inputs on the same  *)
(* file.  The build profile decides how `a - c` on u32 ends when c > a, and *)
(* it is the same for both runs.  I/O is taken to succeed here; its        *)
(* failures are the steps of Spec.                                         *)
(***************************************************************************)
Builds == {"dev", "release"}

\* The way an iteration ends under a build profile: the dev profile panics on
\* overflow, the release profile wraps.
Outcome(recs, r, build) ==
    LET S == Iteration(recs, r)
    IN  IF \E o \in S : o.panic
        THEN CHOOSE o \in S : o.panic = (build = "dev")
        ELSE CHOOSE o \in S : TRUE

\* The source records in the order update_csv takes them: the overall mastery,
\* then the five loops, each in the order of its list (a list of batches having
\* been flattened by the nested loops).
Sources(in) ==
    << Tag("mastery_v2", in.mastery_v2) >>
    \o [k \in 1..Len(in.mastery_map) |-> Tag("mastery_map", in.mastery_map[k])]
    \o [k \in 1..Len(in.unit_progress) |-> Tag("unit_progress", in.unit_progress[k])]
    \o [k \in 1..Len(in.items) |-> Tag("items", in.items[k])]
    \o [k \in 1..Len(in.quizzes) |-> Tag("quizzes", in.quizzes[k])]
    \o [k \in 1..Len(in.tests) |-> Tag("tests", in.tests[k])]

\* Lines 98-220 of update_csv on the rows recs, from source record k on.
RECURSIVE RunPhases(_, _, _, _)
RunPhases(recs, srcs, k, build) ==
    IF k > Len(srcs) THEN [panic |-> FALSE, rows |-> recs]
    ELSE LET o == Outcome(recs, srcs[k], build)
         IN  IF o.panic THEN [panic |-> TRUE, rows |-> recs]
             ELSE IF o.row = 0 THEN RunPhases(recs, srcs, k + 1, build)
             ELSE RunPhases([recs EXCEPT ![o.row] = update_record(@, o.updates)],
                            srcs, k + 1, build)

\* The six inputs of a run: each list empty or of one record whose key is in
\* the tables; items with every best score, attempts with both signs of
\* num_attempted - num_correct.
IdemInputs ==
    [mastery_v2 : MasteryV2Inputs,
     mastery_map : SeqsUpTo({r \in MasteryMapInputs : r.progress_key = "k"}, 1),
     unit_progress : SeqsUpTo({r \in UnitProgressInputs : r.unit_id = "c"}, 1),
     items : SeqsUpTo({r \in ItemProgressInputs : r.progress_key = "k"}, 1),
     quizzes : SeqsUpTo({a \in AttemptInputs : /\ a.parent_id = "u"
                                               /\ a.is_completed
                                               /\ a.num_attempted # a.num_correct}, 1),
     tests : SeqsUpTo({a \in AttemptInputs : /\ a.parent_id = "u"
                                             /\ ~a.is_completed
                                             /\ a.num_attempted # a.num_correct}, 1)]

\* One call of update_csv: the file is read, the phases run on the rows, and
\* the header and the rows are written back; or a phase panics and the file is
\* left as it was.
UpdateCsv ==
    /\ pc \in {"first", "second"}
    /\ LET res == RunPhases(file, Sources(cur.inputs), 1, cur.build)
       IN  /\ reader' = [headers |-> header, rows |-> file]
           /\ records' = res.rows
           /\ n' = n + 1
           /\ IF res.panic
              THEN /\ pc' = "panic"
                   /\ UNCHANGED <<file, before>>
              ELSE /\ file' = res.rows
                   /\ before' = IF pc = "first" THEN res.rows ELSE before
                   /\ pc' = IF pc = "first" THEN "second" ELSE "done"
    /\ UNCHANGED <<header, cur, written, decodeVars, flattenVars, mainVars>>

IdemInit ==
    /\ header = Header
    /\ file \in TableInputs
    /\ reader = [headers |-> <<>>, rows |-> <<>>]
    /\ records = <<>>
    /\ pc = "first"
    /\ n = 0
    /\ \E in \in IdemInputs, b \in Builds :
         cur = [kind |-> "update_csv", inputs |-> in, build |-> b, table |-> file]
    /\ before = <<>>
    /\ written = <<>>
    /\ token = NoToken
    /\ dpc = "idle"
    /\ dres = NoRecord
    /\ course_content = NoRecord
    /\ disk = [dir |-> TRUE, exists |-> TRUE]
    /\ files = <<>>
    /\ file_contents = NoRecord
    /\ fres = NoRecord

IdemNext == UpdateCsv

IdemSpec == IdemInit /\ [][IdemNext]_vars

(***************************************************************************)
(* update_record on its own: one call on a row of an in-memory table, with *)
(* any list of (index, value) instructions, indexes beyond the row's width *)
(* included.                                                               *)
(***************************************************************************)
MaxWidth == 2       \* columns of a row given to update_record
MaxUpdates == 2     \* instructions of one call of update_record

\* The cells of a row of the given width: each column has a value of its own.
CellValues == <<"a", "b", "c", "d", "e">>

RowOfWidth(w) == [j \in 1..w |-> CellValues[j]]

UpdateTableInputs ==
    {[i \in 1..Len(ws) |-> RowOfWidth(ws[i])]
        : ws \in SeqsUpTo(0..MaxWidth, MaxRows) \ {<<>>}}

\* Lists of (index, value): indexes 0 to MaxWidth, the last beyond every row.
UpdatesInputs == SeqsUpTo((0..MaxWidth) \X {"x", "y"}, MaxUpdates)

UpdateRecordCall ==
    /\ pc = "call"
    /\ \E i \in 1..Len(records) : \E updates \in UpdatesInputs :
          /\ cur' = [kind |-> "update_record", row |-> i, updates |-> updates,
                     result |-> update_record_result(records[i], updates)]
          /\ records' = [records EXCEPT ![i] = update_record(@, updates)]
    /\ before' = records
    /\ pc' = "returned"
    /\ UNCHANGED <<header, file, reader, n, written, decodeVars, flattenVars, mainVars>>

UpdateInit ==
    /\ records \in UpdateTableInputs
    /\ pc = "call"
    /\ cur = NoRecord
    /\ before = <<>>
    /\ header = <<>>
    /\ file = <<>>
    /\ reader = [headers |-> <<>>, rows |-> <<>>]
    /\ n = 0
    /\ written = <<>>
    /\ token = NoToken
    /\ dpc = "idle"
    /\ dres = NoRecord
    /\ course_content = NoRecord
    /\ disk = [dir |-> TRUE, exists |-> TRUE]
    /\ files = <<>>
    /\ file_contents = NoRecord
    /\ fres = NoRecord

UpdateNext == UpdateRecordCall

UpdateSpec == UpdateInit /\ [][UpdateNext]_vars

(***************************************************************************)
(* The Tree Flattener: extract_info (extractors.rs), extract_course        *)
(* (json_operations.rs) and the part of main that creates the CSV file,    *)
(* walks the curriculum document into it and flushes it.                   *)
(*                                                                         *)
(* A JSON object is a record of the keys the code reads, each an Option:   *)
(* None when the key is absent or not of the type the code asks for.       *)
(***************************************************************************)
MaxNodes == 4       \* nodes of a curriculum document below its root

JsonNode(id, type_name, parent_topic) ==
    [id |-> Some(id), typename |-> Some(type_name),
     translatedTitle |-> Some("T " \o id), slug |-> Some("s-" \o id),
     relativeUrl |-> Some("/" \o id), urlWithinCurationNode |-> None,
     progressKey |-> Some("k-" \o id), parentTopic |-> parent_topic,
     unitChildren |-> None, allOrderedChildren |-> None, curatedChildren |-> None]

\* An array of m content items under the lesson-like child `id`.
ContentArray(id, m) ==
    [j \in 1..m |-> JsonNode(id \o "c" \o Digit(j),
                             IF j % 2 = 1 THEN "Video" ELSE "Exercise", None)]

\* The j-th child of unit `unit_id`, of type t, with m content items (no
\* curatedChildren array when m = -1).
LessonNode(unit_id, j, t, m) ==
    [JsonNode(unit_id \o "l" \o Digit(j), t, Some(unit_id))
        EXCEPT !.curatedChildren =
            IF m < 0 THEN None ELSE Some(ContentArray(unit_id \o "l" \o Digit(j), m))]

LessonTypes == {"Lesson", "TopicQuiz"}

\* The arrays of lesson-like children from sibling position j on, of at most b
\* nodes in all.
RECURSIVE LessonArrays(_, _, _)
LessonArrays(unit_id, j, b) ==
    IF b = 0 THEN {<<>>}
    ELSE {<<>>} \cup
         UNION {{<<LessonNode(unit_id, j, t, m)>> \o rest
                    : rest \in LessonArrays(unit_id, j + 1, b - 1 - (IF m < 0 THEN 0 ELSE m))}
                  : t \in LessonTypes, m \in (-1)..(b - 1)}

\* The number of nodes of an array of lesson-like children.
RECURSIVE LessonsSize(_)
LessonsSize(lessons) ==
    IF lessons = <<>> THEN 0
    ELSE 1 + (IF IsSome(Head(lessons).curatedChildren)
              THEN Len(Unwrap(Head(lessons).curatedChildren)) ELSE 0)
           + LessonsSize(Tail(lessons))

UnitNode(j, children) ==
    [JsonNode("u" \o Digit(j), "Unit", None) EXCEPT !.allOrderedChildren = children]

\* The arrays of units from sibling position j on, of at most b nodes in all.
RECURSIVE UnitArrays(_, _)
UnitArrays(j, b) ==
    IF b = 0 THEN {<<>>}
    ELSE {<<>>} \cup
         {<<UnitNode(j, None)>> \o rest : rest \in UnitArrays(j + 1, b - 1)} \cup
         UNION {{<<UnitNode(j, Some(ls))>> \o rest
                    : rest \in UnitArrays(j + 1, b - 1 - LessonsSize(ls))}
                  : ls \in LessonArrays("u" \o Digit(j), 1, b - 1)}

CourseNode(children) ==
    [JsonNode("c", "Course", None) EXCEPT !.unitChildren = children]

CourseInputs ==
    {CourseNode(None)} \cup {CourseNode(Some(us)) : us \in UnitArrays(1, MaxNodes)}

MissingField(name) == [kind |-> "err", error |-> "MissingField", field |-> name]

\* Variant: only the primary field is read.
relative_url_PrimaryOnly(item) == item.relativeUrl

\* item["relativeUrl"].as_str().or_else(|| item["urlWithinCurationNode"].as_str())
relative_url(item) ==
    IF IsSome(item.relativeUrl) THEN item.relativeUrl ELSE item.urlWithinCurationNode

\* extract_info: the DataStruct of a JSON node under `parent` (an Option of
\* the parent's DataStruct), or the first missing field.
extract_info(item, parent, order) ==
    IF ~IsSome(item.id) THEN MissingField("id")
    ELSE IF ~IsSome(item.typename) THEN MissingField("__typename")
    ELSE IF ~IsSome(item.translatedTitle) THEN MissingField("translatedTitle")
    ELSE IF ~IsSome(item.slug) THEN MissingField("slug")
    ELSE IF ~IsSome(relative_url(item))
    THEN MissingField("relativeUrl or urlWithinCurationNode")
    ELSE Ok([id |-> Unwrap(item.id),
             type_name |-> Unwrap(item.typename),
             order |-> order,
             title |-> Unwrap(item.translatedTitle),
             slug |-> Unwrap(item.slug),
             relative_url |-> Unwrap(relative_url(item)),
             progress_key |-> item.progressKey,
             parent_topic |-> IF IsSome(item.parentTopic) THEN item.parentTopic ELSE Some(""),
             parent_id |-> IF IsSome(parent) THEN Some(Unwrap(parent).id) ELSE None,
             parent_type |-> IF IsSome(parent) THEN Some(Unwrap(parent).type_name) ELSE None,
             parent_title |-> IF IsSome(parent) THEN Some(Unwrap(parent).title) ELSE None,
             parent_slug |-> IF IsSome(parent) THEN Some(Unwrap(parent).slug) ELSE None,
             parent_relative_url |->
                 IF IsSome(parent) THEN Some(Unwrap(parent).relative_url) ELSE None,
             percentage |-> None, points_earned |-> None, status |-> None,
             completion_status |-> None, num_attempted |-> None,
             num_correct |-> None, num_incorrect |-> None])

\* writer.serialize(content): the row of a DataStruct, its fields in order, the
\* order in decimal and an absent Option as the empty string.
Serialize(content) ==
    <<content.id, content.type_name, to_string(content.order), content.title,
      content.slug, content.relative_url, UnwrapOrEmpty(content.progress_key),
      UnwrapOrEmpty(content.parent_topic), UnwrapOrEmpty(content.parent_id),
      UnwrapOrEmpty(content.parent_type), UnwrapOrEmpty(content.parent_title),
      UnwrapOrEmpty(content.parent_slug), UnwrapOrEmpty(content.parent_relative_url),
      UnwrapOrEmpty(content.percentage), UnwrapOrEmpty(content.points_earned),
      UnwrapOrEmpty(content.status), UnwrapOrEmpty(content.completion_status),
      UnwrapOrEmpty(content.num_attempted), UnwrapOrEmpty(content.num_correct),
      UnwrapOrEmpty(content.num_incorrect)>>

\* A walk, or a part of one: the rows appended to the writer, and Ok or the
\* error `?` returned.
Walked(rows, result) == [rows |-> rows, result |-> result]

\* The rows of `first` followed by the walk `rest`, unless `first` failed.
AndThen(first, rest) ==
    IF first.result.kind = "err" THEN first
    ELSE Walked(first.rows \o rest.rows, rest.result)

\* Variant: content items are walked under a child of any type.
IsLesson_Always(lesson) == TRUE

\* lesson["__typename"] == "Lesson"
IsLesson(lesson) == lesson.typename = Some("Lesson")

\* Variant: a content item's order is its 0-based index.
RECURSIVE WalkContents_ZeroBased(_, _, _)
WalkContents_ZeroBased(contents, k, lesson_info) ==
    IF k > Len(contents) THEN Walked(<<>>, Ok(<<>>))
    ELSE LET content_info == extract_info(contents[k], Some(lesson_info), k - 1)
         IN  IF content_info.kind = "err" THEN Walked(<<>>, content_info)
             ELSE AndThen(Walked(<<Serialize(content_info.value)>>, Ok(<<>>)),
                          WalkContents_ZeroBased(contents, k + 1, lesson_info))

\* The loop over `contents`, from its k-th element on (k = content_order + 1).
RECURSIVE WalkContents(_, _, _)
WalkContents(contents, k, lesson_info) ==
    IF k > Len(contents) THEN Walked(<<>>, Ok(<<>>))
    ELSE LET content_info == extract_info(contents[k], Some(lesson_info), k)
         IN  IF content_info.kind = "err" THEN Walked(<<>>, content_info)
             ELSE AndThen(Walked(<<Serialize(content_info.value)>>, Ok(<<>>)),
                          WalkContents(contents, k + 1, lesson_info))

\* The body of `if lesson["__typename"] == "Lesson"`.
WalkLesson(lesson, lesson_info) ==
    IF ~IsLesson(lesson) THEN Walked(<<>>, Ok(<<>>))
    ELSE IF ~IsSome(lesson.curatedChildren)
    THEN Walked(<<>>, MissingField("curatedChildren"))
    ELSE WalkContents(Unwrap(lesson.curatedChildren), 1, lesson_info)

\* Variant: content items are given the unit as their parent.
RECURSIVE WalkLessons_UnitParent(_, _, _)
WalkLessons_UnitParent(lessons, k, unit_info) ==
    IF k > Len(lessons) THEN Walked(<<>>, Ok(<<>>))
    ELSE LET lesson_info == extract_info(lessons[k], Some(unit_info), k)
         IN  IF lesson_info.kind = "err" THEN Walked(<<>>, lesson_info)
             ELSE AndThen(Walked(<<Serialize(lesson_info.value)>>, Ok(<<>>)),
                  AndThen(WalkLesson(lessons[k], unit_info),
                          WalkLessons_UnitParent(lessons, k + 1, unit_info)))

\* The loop over `lessons`, from its k-th element on.
RECURSIVE WalkLessons(_, _, _)
WalkLessons(lessons, k, unit_info) ==
    IF k > Len(lessons) THEN Walked(<<>>, Ok(<<>>))
    ELSE LET lesson_info == extract_info(lessons[k], Some(unit_info), k)
         IN  IF lesson_info.kind = "err" THEN Walked(<<>>, lesson_info)
             ELSE AndThen(Walked(<<Serialize(lesson_info.value)>>, Ok(<<>>)),
                  AndThen(WalkLesson(lessons[k], lesson_info.value),
                          WalkLessons(lessons, k + 1, unit_info)))

\* The loop over `units`, from its k-th element on.
RECURSIVE WalkUnits(_, _, _)
WalkUnits(units, k, course_info) ==
    IF k > Len(units) THEN Walked(<<>>, Ok(<<>>))
    ELSE LET unit_info == extract_info(units[k], Some(course_info), k)
         IN  IF unit_info.kind = "err" THEN Walked(<<>>, unit_info)
             ELSE AndThen(Walked(<<Serialize(unit_info.value)>>, Ok(<<>>)),
                  AndThen(IF ~IsSome(units[k].allOrderedChildren)
                          THEN Walked(<<>>, MissingField("allOrderedChildren"))
                          ELSE WalkLessons(Unwrap(units[k].allOrderedChildren), 1,
                                           unit_info.value),
                          WalkUnits(units, k + 1, course_info)))

extract_course(content) ==
    LET course_info == extract_info(content, None, 1)
    IN  IF course_info.kind = "err" THEN Walked(<<>>, course_info)
        ELSE AndThen(Walked(<<Serialize(course_info.value)>>, Ok(<<>>)),
                     IF ~IsSome(content.unitChildren)
                     THEN Walked(<<>>, MissingField("unitChildren"))
                     ELSE WalkUnits(Unwrap(content.unitChildren), 1, course_info.value))

\* Variant: an existing file is opened as it is, without truncating it.
CreateCsvFile_KeepsContent ==
    /\ pc = "create"
    /\ cur' = [kind |-> "create_csv_file", existed |-> disk.exists,
               header |-> header, rows |-> file]
    /\ IF disk.dir
       THEN /\ disk' = [disk EXCEPT !.exists = TRUE]
            /\ pc' = "extract"
            /\ UNCHANGED <<header, file, fres>>
       ELSE /\ fres' = [kind |-> "err", error |-> "Io"]
            /\ pc' = "io_error"
            /\ UNCHANGED <<header, file, disk>>
    /\ UNCHANGED <<reader, records, n, before, written, decodeVars, course_content,
                   files, file_contents>>

\* create_csv_file(&output_csv_file)?: File::create(filename) creates the file
\* or truncates the one there; it fails, and map_err gives AppError::Io, when
\* the directory of the path does not exist.  cur keeps what the path held.
CreateCsvFile ==
    /\ pc = "create"
    /\ cur' = [kind |-> "create_csv_file", existed |-> disk.exists,
               header |-> header, rows |-> file]
    /\ IF disk.dir
       THEN /\ header' = <<>>
            /\ file' = <<>>
            /\ disk' = [disk EXCEPT !.exists = TRUE]
            /\ pc' = "extract"
            /\ UNCHANGED fres
       ELSE /\ fres' = [kind |-> "err", error |-> "Io"]
            /\ pc' = "io_error"
            /\ UNCHANGED <<header, file, disk>>
    /\ UNCHANGED <<reader, records, n, before, written, decodeVars, course_content,
                   files, file_contents>>

\* Writer::from_writer(file): no line yet, the header still to be written.
NewWriter == [lines |-> <<>>, wrote_header |-> FALSE]

\* Variant: the header line is written before every row.
append_data_to_csv_HeaderEachTime(row, writer) ==
    [lines |-> writer.lines \o <<Header, row>>, wrote_header |-> TRUE]

\* writer.serialize(content), on the row of `content`: the first call writes
\* the header line before the row.
append_data_to_csv(row, writer) ==
    [lines |-> writer.lines \o (IF writer.wrote_header THEN <<>> ELSE <<Header>>)
                            \o <<row>>,
     wrote_header |-> TRUE]

\* The writer after the appends of a walk, in their order, from the k-th on.
RECURSIVE AppendAll(_, _, _)
AppendAll(rows, k, writer) ==
    IF k > Len(rows) THEN writer
    ELSE AppendAll(rows, k + 1, append_data_to_csv(rows[k], writer))

\* extract_course(&course_content, &mut writer)?  header and file are the
\* first line and the lines below it of what has been handed to the writer,
\* which is what the disk holds once the writer is flushed or dropped.
ExtractCourse ==
    /\ pc = "extract"
    /\ LET walk == extract_course(course_content)
           lines == AppendAll(walk.rows, 1, NewWriter).lines
       IN  /\ file' = IF lines = <<>> THEN <<>> ELSE Tail(lines)
           /\ header' = IF lines = <<>> THEN <<>> ELSE Head(lines)
           /\ fres' = walk.result
           /\ pc' = IF walk.result.kind = "err" THEN "error" ELSE "flush"
    /\ UNCHANGED <<reader, records, n, cur, before, written, decodeVars, course_content,
                   mainVars>>

\* writer.flush()?
FlushWriter ==
    /\ pc = "flush"
    /\ pc' = "flushed"
    /\ UNCHANGED <<header, file, reader, records, n, cur, before, written, decodeVars,
                   flattenVars, mainVars>>

\* The output path holds an earlier table, or no file, or its directory does
\* not exist.
FlattenInit ==
    /\ course_content \in CourseInputs
    /\ fres = NoRecord
    /\ disk \in {[dir |-> FALSE, exists |-> FALSE], [dir |-> TRUE, exists |-> FALSE],
                 [dir |-> TRUE, exists |-> TRUE]}
    /\ header = IF disk.exists THEN Header ELSE <<>>
    /\ file = IF disk.exists THEN <<MkRow("old", "Course", "", "", "")>> ELSE <<>>
    /\ files = <<>>
    /\ file_contents = NoRecord
    /\ pc = "create"
    /\ reader = [headers |-> <<>>, rows |-> <<>>]
    /\ records = <<>>
    /\ n = 0
    /\ cur = NoRecord
    /\ before = <<>>
    /\ written = <<>>
    /\ token = NoToken
    /\ dpc = "idle"
    /\ dres = NoRecord

FlattenNext ==
    \/ CreateCsvFile
    \/ ExtractCourse
    \/ FlushWriter

FlattenSpec == FlattenInit /\ [][FlattenNext]_vars

(***************************************************************************)
(* extract_info on its own: one call on a node in which any of the keys    *)
(* the function reads may be absent, without a parent or with one.         *)
(***************************************************************************)
ItemInputs ==
    {[id |-> i, typename |-> t, translatedTitle |-> tt, slug |-> sl,
      relativeUrl |-> ru, urlWithinCurationNode |-> au,
      progressKey |-> pk, parentTopic |-> pt,
      unitChildren |-> None, allOrderedChildren |-> None, curatedChildren |-> None]
        : i \in OptionOf({"x1"}), t \in OptionOf({"Exercise"}),
          tt \in OptionOf({"Title"}), sl \in OptionOf({"slug"}),
          ru \in OptionOf({"/primary"}), au \in OptionOf({"/alternate"}),
          pk \in OptionOf({"key"}), pt \in OptionOf({"topic"})}

ParentInputs ==
    {None, Some(extract_info(JsonNode("l1", "Lesson", Some("u1")), None, 1).value)}

ExtractInfoCall ==
    /\ pc = "call"
    /\ fres' = extract_info(cur.item, cur.parent, cur.order)
    /\ pc' = "returned"
    /\ UNCHANGED <<header, file, reader, records, n, cur, before, written, decodeVars,
                   course_content, mainVars>>

InfoInit ==
    /\ cur \in {[kind |-> "extract_info", item |-> item, parent |-> parent, order |-> 2]
                  : item \in ItemInputs, parent \in ParentInputs}
    /\ fres = NoRecord
    /\ pc = "call"
    /\ course_content = NoRecord
    /\ disk = [dir |-> TRUE, exists |-> TRUE]
    /\ files = <<>>
    /\ file_contents = NoRecord
    /\ header = <<>>
    /\ file = <<>>
    /\ reader = [headers |-> <<>>, rows |-> <<>>]
    /\ records = <<>>
    /\ n = 0
    /\ before = <<>>
    /\ written = <<>>
    /\ token = NoToken
    /\ dpc = "idle"
    /\ dres = NoRecord

InfoNext == ExtractInfoCall

InfoSpec == InfoInit /\ [][InfoNext]_vars

(***************************************************************************)
(* The whole run (main): the directory is listed, the four inputs are      *)
(* resolved and read, the table is created from the curriculum tree, and   *)
(* the progress is merged into it.  A file name is the sequence of its     *)
(* characters; a directory listing is a sequence of names in any order.    *)
(***************************************************************************)
MaxFiles == 4       \* names in the directory listing

\* The characters of the strings the run builds names from.
CharsOf(s) ==
    CASE s = "contentForPath" ->
           <<"c", "o", "n", "t", "e", "n", "t", "F", "o", "r", "P", "a", "t", "h">>
      [] s = "courseProgressQuery" ->
           <<"c", "o", "u", "r", "s", "e", "P", "r", "o", "g", "r", "e", "s", "s", "Q", "u", "e", "r", "y">>
      [] s = "getUserInfoForTopicProgressMastery-" ->
           <<"g", "e", "t", "U", "s", "e", "r", "I", "n", "f", "o", "F", "o", "r", "T", "o", "p", "i", "c", "P", "r", "o", "g", "r", "e", "s", "s", "M", "a", "s", "t", "e", "r", "y", "-">>
      [] s = "quizAndUnitTestAttemptsQuery-" ->
           <<"q", "u", "i", "z", "A", "n", "d", "U", "n", "i", "t", "T", "e", "s", "t", "A", "t", "t", "e", "m", "p", "t", "s", "Q", "u", "e", "r", "y", "-">>
      [] s = ".json" ->
           <<".", "j", "s", "o", "n">>
      [] s = ".txt" ->
           <<".", "t", "x", "t">>
      [] s = "c-" ->
           <<"c", "-">>
      [] s = "d" ->
           <<"d">>
      [] s = "/" ->
           <<"/">>
      [] s = "1" ->
           <<"1">>
      [] s = "2" ->
           <<"2">>
      [] s = "3" ->
           <<"3">>
      [] s = "10" ->
           <<"1", "0">>

starts_with(s, p) == Len(p) <= Len(s) /\ SubSeq(s, 1, Len(p)) = p

ends_with(s, p) == Len(p) <= Len(s) /\ SubSeq(s, Len(s) - Len(p) + 1, Len(s)) = p

contains(s, ch) == \E k \in 1..Len(s) : s[k] = ch

\* str::trim_end_matches(pat): the pattern is removed from the end repeatedly.
RECURSIVE trim_end_matches(_, _)
trim_end_matches(s, p) ==
    IF ends_with(s, p) THEN trim_end_matches(SubSeq(s, 1, Len(s) - Len(p)), p) ELSE s

\* rsplit(ch).next(): the part after the last ch, the whole string without one.
rsplit_next(s, ch) ==
    LET at == {k \in 1..Len(s) : s[k] = ch}
    IN  IF at = {} THEN s
        ELSE SubSeq(s, (CHOOSE k \in at : \A j \in at : j <= k) + 1, Len(s))

DigitValue(ch) ==
    CASE ch = "0" -> 0 [] ch = "1" -> 1 [] ch = "2" -> 2 [] ch = "3" -> 3 [] ch = "4" -> 4
      [] ch = "5" -> 5 [] ch = "6" -> 6 [] ch = "7" -> 7 [] ch = "8" -> 8 [] ch = "9" -> 9
      [] OTHER -> -1

\* str::parse::<u32>, digit by digit from position k on a value kept as two
\* 16-bit limbs <<hi, lo>>: None on a character that is no digit and on a
\* value above u32::MAX.
RECURSIVE ParseFrom(_, _, _)
ParseFrom(s, k, acc) ==
    IF k > Len(s) THEN Some(acc)
    ELSE LET d  == DigitValue(s[k])
             lo == acc[2] * 10 + d
             hi == acc[1] * 10 + (lo \div Limb)
         IN  IF d < 0 \/ hi >= Limb THEN None
             ELSE ParseFrom(s, k + 1, <<hi, lo % Limb>>)

\* None on the empty string and on a lone sign; one leading "+" is accepted.
parse_digits(s) ==
    IF s = <<>> THEN None
    ELSE IF s[1] = "+" THEN (IF Len(s) = 1 THEN None ELSE ParseFrom(s, 2, <<0, 0>>))
    ELSE ParseFrom(s, 1, <<0, 0>>)

\* The key sort_by_key gives a path: the u32 after the last "-" of the path
\* without its ".json" endings, 0 when that is not a u32.
SortKey(file_path) ==
    LET s == parse_digits(rsplit_next(trim_end_matches(file_path, CharsOf(".json")), "-"))
    IN  IF IsSome(s) THEN Unwrap(s) ELSE <<0, 0>>

KeyLeq(a, c) == a[1] < c[1] \/ (a[1] = c[1] /\ a[2] <= c[2])

\* Variant: the paths stay in the order of the listing.
RECURSIVE sort_by_key_Unsorted(_, _, _)
sort_by_key_Unsorted(paths, k, sorted) ==
    IF k > Len(paths) THEN sorted
    ELSE sort_by_key_Unsorted(paths, k + 1, Append(sorted, paths[k]))

\* Vec::sort_by_key, a stable sort: the paths from the k-th on are inserted
\* one by one into `sorted`, each behind the paths whose key is not greater.
RECURSIVE sort_by_key(_, _, _)
sort_by_key(paths, k, sorted) ==
    IF k > Len(paths) THEN sorted
    ELSE LET p == Cardinality({i \in 1..Len(sorted)
                                  : KeyLeq(SortKey(sorted[i]), SortKey(paths[k]))})
         IN  sort_by_key(paths, k + 1,
                         SubSeq(sorted, 1, p) \o <<paths[k]>>
                             \o SubSeq(sorted, p + 1, Len(sorted)))

\* The arguments of the run.
PathArg == "d"
PrefixArg == "c-"

\* The curriculum tree of the directory: a unit with a lesson of one video, a
\* quiz and a unit test.
TreeDocument ==
    CourseNode(Some(<<UnitNode(1, Some(<<LessonNode("u1", 1, "Lesson", 1),
                                         LessonNode("u1", 2, "TopicQuiz", -1),
                                         LessonNode("u1", 3, "TopicUnitTest", -1)>>))>>))

ProgressDocument ==
    [mastery_v2 |-> [percentage |-> 7, points_earned |-> 1200],
     mastery_map |-> <<[progress_key |-> "k-u1l1c1", status |-> "PROFICIENT"]>>,
     unit_progress |-> <<>>]

\* The content-item batch numbered N: one record for the video, whose values
\* tell the batches apart.
ItemBatch(status, attempted) ==
    <<[progress_key |-> "k-u1l1c1", completion_status |-> status,
       best_score |-> Some([num_attempted |-> Some(attempted), num_correct |-> Some(3)])]>>

\* The attempts batch numbered N: one quiz attempt and one unit-test attempt
\* under unit u1.
AttemptBatch(completed, attempted) ==
    [quizzes |-> <<[parent_id |-> "u1", is_completed |-> completed,
                    num_attempted |-> attempted, num_correct |-> 3]>>,
     tests |-> <<[parent_id |-> "u1", is_completed |-> completed,
                  num_attempted |-> attempted, num_correct |-> 3]>>]

\* The files a directory may hold: name, what it is, its batch number and
\* its content.
DirEntries ==
    { [name |-> CharsOf("c-") \o CharsOf("contentForPath") \o CharsOf(".json"),
       kind |-> "tree", number |-> 0, content |-> TreeDocument],
      [name |-> CharsOf("c-") \o CharsOf("contentForPath"),
       kind |-> "tree", number |-> 0, content |-> TreeDocument],
      [name |-> CharsOf("contentForPath") \o CharsOf(".json"),
       kind |-> "other", number |-> 0, content |-> TreeDocument],
      [name |-> CharsOf("c-") \o CharsOf("courseProgressQuery") \o CharsOf(".json"),
       kind |-> "progress", number |-> 0, content |-> ProgressDocument],
      [name |-> CharsOf("c-") \o CharsOf("getUserInfoForTopicProgressMastery-")
                    \o CharsOf("2"),
       kind |-> "items", number |-> 2, content |-> ItemBatch("STARTED", 3)],
      [name |-> CharsOf("c-") \o CharsOf("getUserInfoForTopicProgressMastery-")
                    \o CharsOf("10") \o CharsOf(".json"),
       kind |-> "items", number |-> 10, content |-> ItemBatch("COMPLETE", 5)],
      [name |-> CharsOf("c-") \o CharsOf("getUserInfoForTopicProgressMastery-")
                    \o CharsOf("3") \o CharsOf(".txt"),
       kind |-> "other", number |-> 3, content |-> ItemBatch("OTHER", 5)],
      [name |-> CharsOf("c-") \o CharsOf("quizAndUnitTestAttemptsQuery-")
                    \o CharsOf("2") \o CharsOf(".json"),
       kind |-> "attempts", number |-> 2, content |-> AttemptBatch(FALSE, 3)],
      [name |-> CharsOf("c-") \o CharsOf("quizAndUnitTestAttemptsQuery-")
                    \o CharsOf("10") \o CharsOf(".json"),
       kind |-> "attempts", number |-> 10, content |-> AttemptBatch(TRUE, 5)] }

\* The listings of a directory: its names, each once, in any order.
RECURSIVE Listings(_)
Listings(k) ==
    IF k = 0 THEN {<<>>}
    ELSE LET shorter == Listings(k - 1)
         IN  shorter \cup
             UNION {{Append(l, e.name)
                        : e \in {d \in DirEntries : \A i \in 1..Len(l) : l[i] # d.name}}
                      : l \in shorter}

\* format!("{}/{}", path, file)
PathOf(path, name) == CharsOf(path) \o CharsOf("/") \o name

\* read_json_file(file_path): the content of the file at the path.
read_json_file(file_path) ==
    Ok((CHOOSE e \in DirEntries : PathOf(PathArg, e.name) = file_path).content)

MissingFile(suffix) ==
    [kind |-> "err", error |-> "MissingFile", message |-> suffix \o " file not found"]

\* find_and_read_json_file: the first name of the listing that is
\* <prefix><suffix>.json or <prefix><suffix> is read.
find_and_read_json_file(fs, path, prefix, suffix) ==
    LET file_name == CharsOf(prefix) \o CharsOf(suffix)
        k == FindFirst([i \in 1..Len(fs) |->
                           \/ fs[i] = file_name \o CharsOf(".json")
                           \/ fs[i] = file_name], 1)
    IN  IF k = 0 THEN MissingFile(suffix)
        ELSE read_json_file(PathOf(path, fs[k]))

\* find_and_read_json_files: the names that start with <prefix><suffix> and
\* end with ".json" or hold no ".", as paths sorted by their key, are read.
find_and_read_json_files(fs, path, prefix, suffix) ==
    LET file_prefix == CharsOf(prefix) \o CharsOf(suffix)
        kept == SelectSeq(fs, LAMBDA f :
                    \/ starts_with(f, file_prefix) /\ ends_with(f, CharsOf(".json"))
                    \/ starts_with(f, file_prefix) /\ ~contains(f, "."))
        file_paths == sort_by_key([k \in 1..Len(kept) |-> PathOf(path, kept[k])], 1, <<>>)
    IN  Ok([k \in 1..Len(file_paths) |-> read_json_file(file_paths[k]).value])

\* Variant: the output file is created before the inputs are resolved.
ReadInputs_CreatesFirst ==
    /\ pc = "read_files"
    /\ cur' = [kind |-> "main", existed |-> disk.exists]
    /\ UNCHANGED <<files, reader, records, n, before, written, decodeVars>>
    /\ IF ~disk.dir
       THEN /\ fres' = [kind |-> "err", error |-> "Io"]
            /\ pc' = "io_error"
            /\ UNCHANGED <<header, file, disk, course_content, file_contents>>
       ELSE LET json_content == find_and_read_json_file(files, PathArg, PrefixArg,
                                                        "contentForPath")
                json_course_progress ==
                    find_and_read_json_file(files, PathArg, PrefixArg, "courseProgressQuery")
                json_unit_progress_files ==
                    find_and_read_json_files(files, PathArg, PrefixArg,
                                             "getUserInfoForTopicProgressMastery-")
                json_quiz_test_progress_files ==
                    find_and_read_json_files(files, PathArg, PrefixArg,
                                             "quizAndUnitTestAttemptsQuery-")
            IN  /\ header' = <<>>
                /\ file' = <<>>
                /\ disk' = [disk EXCEPT !.exists = TRUE]
                /\ IF json_content.kind = "err"
                   THEN /\ fres' = json_content
                        /\ pc' = "missing"
                        /\ UNCHANGED <<course_content, file_contents>>
                   ELSE IF json_course_progress.kind = "err"
                   THEN /\ fres' = json_course_progress
                        /\ pc' = "missing"
                        /\ UNCHANGED <<course_content, file_contents>>
                   ELSE /\ file_contents' =
                               [kind |-> "FileContents",
                                json_course_progress |-> json_course_progress.value,
                                json_unit_progress_files |-> json_unit_progress_files.value,
                                json_quiz_test_progress_files |->
                                    json_quiz_test_progress_files.value]
                        /\ course_content' = json_content.value
                        /\ pc' = "create"
                        /\ UNCHANGED fres

\* Lines 999-1019 of main: list_files_in_directory(&args.path)?, which fails
\* without the directory; the two find_and_read_json_file calls, each ending
\* the run with its error; the two find_and_read_json_files calls; the parse
\* of the tree.  The output path is not touched.
ReadInputs ==
    /\ pc = "read_files"
    /\ cur' = [kind |-> "main", existed |-> disk.exists]
    /\ UNCHANGED <<header, file, disk, files, reader, records, n, before, written,
                   decodeVars>>
    /\ IF ~disk.dir
       THEN /\ fres' = [kind |-> "err", error |-> "Io"]
            /\ pc' = "io_error"
            /\ UNCHANGED <<course_content, file_contents>>
       ELSE LET json_content == find_and_read_json_file(files, PathArg, PrefixArg,
                                                        "contentForPath")
                json_course_progress ==
                    find_and_read_json_file(files, PathArg, PrefixArg, "courseProgressQuery")
                json_unit_progress_files ==
                    find_and_read_json_files(files, PathArg, PrefixArg,
                                             "getUserInfoForTopicProgressMastery-")
                json_quiz_test_progress_files ==
                    find_and_read_json_files(files, PathArg, PrefixArg,
                                             "quizAndUnitTestAttemptsQuery-")
            IN  IF json_content.kind = "err"
                THEN /\ fres' = json_content
                     /\ pc' = "missing"
                     /\ UNCHANGED <<course_content, file_contents>>
                ELSE IF json_course_progress.kind = "err"
                THEN /\ fres' = json_course_progress
                     /\ pc' = "missing"
                     /\ UNCHANGED <<course_content, file_contents>>
                ELSE /\ file_contents' =
                            [kind |-> "FileContents",
                             json_course_progress |-> json_course_progress.value,
                             json_unit_progress_files |-> json_unit_progress_files.value,
                             json_quiz_test_progress_files |->
                                 json_quiz_test_progress_files.value]
                     /\ course_content' = json_content.value
                     /\ pc' = "create"
                     /\ UNCHANGED fres

\* Lines 1024-1048 of main: the progress documents are taken apart (batch by
\* batch, in the order of the vectors) and update_csv merges them into the
\* table just written.
MergeProgress ==
    /\ pc = "flushed"
    /\ LET progress == file_contents.json_course_progress
           batches == file_contents.json_unit_progress_files
           attempts == file_contents.json_quiz_test_progress_files
           in == [mastery_v2 |-> progress.mastery_v2,
                  mastery_map |-> progress.mastery_map,
                  unit_progress |-> progress.unit_progress,
                  items |-> Concat(batches),
                  quizzes |-> Concat([k \in 1..Len(attempts) |-> attempts[k].quizzes]),
                  tests |-> Concat([k \in 1..Len(attempts) |-> attempts[k].tests])]
           res == RunPhases(file, Sources(in), 1, "dev")
       IN  /\ reader' = [headers |-> header, rows |-> file]
           /\ records' = res.rows
           /\ before' = file
           /\ IF res.panic
              THEN pc' = "panic" /\ UNCHANGED file
              ELSE pc' = "done" /\ file' = res.rows
    /\ UNCHANGED <<header, n, cur, written, decodeVars, flattenVars, mainVars>>

\* The old table at the output path, when there is one.
OldTable == <<MkRow("old", "Course", "", "", "")>>

MainInit ==
    /\ disk \in {[dir |-> FALSE, exists |-> FALSE], [dir |-> TRUE, exists |-> FALSE],
                 [dir |-> TRUE, exists |-> TRUE]}
    /\ files \in (IF disk.dir THEN Listings(MaxFiles) ELSE {<<>>})
    /\ header = IF disk.exists THEN Header ELSE <<>>
    /\ file = IF disk.exists THEN OldTable ELSE <<>>
    /\ file_contents = NoRecord
    /\ course_content = NoRecord
    /\ fres = NoRecord
    /\ pc = "read_files"
    /\ reader = [headers |-> <<>>, rows |-> <<>>]
    /\ records = <<>>
    /\ n = 0
    /\ cur = NoRecord
    /\ before = <<>>
    /\ written = <<>>
    /\ token = NoToken
    /\ dpc = "idle"
    /\ dres = NoRecord

MainNext ==
    \/ ReadInputs
    \/ CreateCsvFile
    \/ ExtractCourse
    \/ FlushWriter
    \/ MergeProgress

MainSpec == MainInit /\ [][MainNext]_vars

(***************************************************************************)
(* Properties of the Progress Merger, stated for Spec.  They speak of     *)
(* the latest loop iteration: its source record cur, the rows before it    *)
(* and the rows (records) after it.                                        *)
(***************************************************************************)
LoopKinds == {"mastery_map", "unit_progress", "items", "quizzes", "tests"}

Rows == 1..Len(before)

Changed(i) == records[i] # before[i]

\* The smallest element of a non-empty set of row indices.
First(S) == CHOOSE i \in S : \A j \in S : i <= j

\* The attempt's values are in the row's completion and count cells.
HoldsAttempt(row, attempt) ==
    /\ Field(row, "completionStatus") = (IF attempt.is_completed THEN "COMPLETE" ELSE "UNCOMPLETED")
    /\ Field(row, "numAttempted") = to_string(attempt.num_attempted)
    /\ Field(row, "numCorrect") = to_string(attempt.num_correct)

\* Rows whose column `column` equals the attempt's decoded parent id and whose
\* type is `type_name`.
AttemptRows(attempt, column, type_name) ==
    {i \in Rows : /\ Field(before[i], column) = attempt.parent_id
                  /\ Field(before[i], "typeName") = type_name}

\* C1 as stated: a quiz attempt updates the row whose `id` equals the decoded
\* parent_id and whose type is "TopicQuiz", and modifies no row failing either
\* condition.
C1_QuizMatchesId ==
    cur.kind = "quizzes" =>
        /\ \A i \in Rows : Changed(i) => i \in AttemptRows(cur, "id", "TopicQuiz")
        /\ (AttemptRows(cur, "id", "TopicQuiz") # {} /\ pc # "panic") =>
               HoldsAttempt(records[First(AttemptRows(cur, "id", "TopicQuiz"))], cur)

\* C1 amended: a quiz attempt updates the first row whose `parentTopic` column
\* (index 7) equals the decoded parent_id and whose type is "TopicQuiz", and
\* modifies no row failing either condition.
C1_QuizMatchesParentTopic ==
    cur.kind = "quizzes" =>
        /\ \A i \in Rows : Changed(i) => i \in AttemptRows(cur, "parentTopic", "TopicQuiz")
        /\ (AttemptRows(cur, "parentTopic", "TopicQuiz") # {} /\ pc # "panic") =>
               HoldsAttempt(records[First(AttemptRows(cur, "parentTopic", "TopicQuiz"))], cur)

\* C1 witness: a quiz attempt has updated a row whose id is not its parent_id.
C1_Witness ==
    /\ cur.kind = "quizzes"
    /\ \E i \in Rows : /\ Changed(i)
                       /\ Field(before[i], "id") # cur.parent_id
                       /\ Field(before[i], "parentTopic") = cur.parent_id
                       /\ HoldsAttempt(records[i], cur)

\* C2 as stated: a unit-test attempt updates the row whose `id` equals the
\* decoded parent_id and whose type is "TopicUnitTest", the column being the one
\* the quiz lookup compares.
C2_TestMatchesId ==
    cur.kind = "tests" =>
        /\ \A i \in Rows : Changed(i) => i \in AttemptRows(cur, "id", "TopicUnitTest")
        /\ (AttemptRows(cur, "id", "TopicUnitTest") # {} /\ pc # "panic") =>
               HoldsAttempt(records[First(AttemptRows(cur, "id", "TopicUnitTest"))], cur)

\* C2 amended: a unit-test attempt updates the first row whose `parentId` column
\* (index 8) equals the decoded parent_id and whose type is "TopicUnitTest"; the
\* quiz lookup compares another column (`parentTopic`, index 7), so a row whose
\* parentTopic alone equals the parent_id is not modified.
C2_TestMatchesParentId ==
    cur.kind = "tests" =>
        /\ \A i \in Rows : Changed(i) => i \in AttemptRows(cur, "parentId", "TopicUnitTest")
        /\ (AttemptRows(cur, "parentId", "TopicUnitTest") # {} /\ pc # "panic") =>
               HoldsAttempt(records[First(AttemptRows(cur, "parentId", "TopicUnitTest"))], cur)

\* C2 witness: a unit-test attempt has updated a row whose parentTopic, the
\* column of the quiz lookup, is not its parent_id.
C2_Witness ==
    /\ cur.kind = "tests"
    /\ \E i \in Rows : /\ Changed(i)
                       /\ Field(before[i], "parentId") = cur.parent_id
                       /\ Field(before[i], "parentTopic") # cur.parent_id
                       /\ HoldsAttempt(records[i], cur)

\* C6: a source record of phases 2 to 6 changes at most one row, the matching
\* row of smallest index; every other matching row is left as it was.
C6_FirstMatchWins ==
    cur.kind \in LoopKinds =>
        \A i \in Rows :
            Changed(i) => /\ Matches(before[i], cur)
                          /\ \A j \in 1..(i - 1) : ~Matches(before[j], cur)

\* C6 witness: two rows match the record; the first was updated, the second not.
C6_Witness ==
    /\ cur.kind \in LoopKinds
    /\ \E i, j \in Rows : /\ i < j
                          /\ Matches(before[i], cur)
                          /\ Matches(before[j], cur)
                          /\ Changed(i)
                          /\ ~Changed(j)

\* C7: a source record of phases 2 to 6 that matches no row leaves the rows as
\* they were, does not panic, and leaves update_csv in the same loop, ready for
\* the next record.
C7_MissIsNoOp ==
    (cur.kind \in LoopKinds /\ \A i \in Rows : ~Matches(before[i], cur)) =>
        /\ records = before
        /\ pc = cur.kind

\* C7 witness: an attempt with num_correct > num_attempted matched no row of a
\* non-empty table, and the loop goes on.
C7_Witness ==
    /\ cur.kind \in {"quizzes", "tests"}
    /\ cur.num_correct > cur.num_attempted
    /\ Rows # {}
    /\ \A i \in Rows : ~Matches(before[i], cur)
    /\ records = before
    /\ pc = cur.kind
    /\ n = MaxRecords

\* C5: the phases are applied in the order 1 to 6, so every progress cell holds
\* the latest value written by the highest-numbered phase that wrote it, no
\* phase has written before a lower-numbered one does, and the table written
\* back is the one the last phase left.
C5_LaterPhaseWins ==
    /\ \A i \in 1..Len(records) : \A c \in ProgressColumns :
          written[i][c].phase # 0 => Get(records[i], c) = written[i][c].val
    /\ cur.kind # "none" =>
          \A i \in 1..Len(records) : \A c \in ProgressColumns :
              written[i][c].phase <= PhaseNo(cur.kind)
    /\ pc = "done" => file = records

\* C5 witness: the run is over; a content item (phase 4, which writes
\* "COMPLETE") and a quiz attempt (phase 5) both wrote the completion status of
\* one row, and the file holds the quiz attempt's "UNCOMPLETED".
C5_Witness ==
    /\ pc = "done"
    /\ \E i \in 1..Len(file) :
          /\ written[i][16].phases = {4, 5}
          /\ Get(file[i], 16) = "UNCOMPLETED"

\* Rows of the table before the latest iteration that its record matches.
MatchRows == {i \in Rows : Matches(before[i], cur)}

\* The operands of num_incorrect the latest record carries, as Options.
Attempted ==
    IF cur.kind = "items"
    THEN (IF IsSome(cur.best_score) THEN Unwrap(cur.best_score).num_attempted ELSE None)
    ELSE Some(cur.num_attempted)

Correct ==
    IF cur.kind = "items"
    THEN (IF IsSome(cur.best_score) THEN Unwrap(cur.best_score).num_correct ELSE None)
    ELSE Some(cur.num_correct)

\* C8 as stated: for a content-item, quiz or unit-test record with
\* num_correct > num_attempted that matches a row, the run does not fail and
\* the row's num_incorrect is "0".
C8_ClampsToZero ==
    ( /\ cur.kind \in {"items", "quizzes", "tests"}
      /\ IsSome(Attempted) /\ IsSome(Correct)
      /\ Unwrap(Correct) > Unwrap(Attempted)
      /\ MatchRows # {} ) =>
        /\ pc # "panic"
        /\ Field(records[First(MatchRows)], "numIncorrect") = "0"

\* C9 as stated: a content-item record without a best score sets the
\* completion status of its row and leaves num_attempted, num_correct and
\* num_incorrect of every row as they were.
C9_NoBestScoreKeepsCounts ==
    (cur.kind = "items" /\ ~IsSome(cur.best_score)) =>
        /\ MatchRows # {} =>
              Field(records[First(MatchRows)], "completionStatus") = cur.completion_status
        /\ \A i \in Rows :
              /\ Field(records[i], "numAttempted") = Field(before[i], "numAttempted")
              /\ Field(records[i], "numCorrect") = Field(before[i], "numCorrect")
              /\ Field(records[i], "numIncorrect") = Field(before[i], "numIncorrect")

\* C10: for a content-item record that matches a row, num_incorrect of the row
\* is the decimal string of a - c when the best score has both num_attempted = a
\* and num_correct = c with c <= a (5 and 3 give "2"), and the empty string when
\* either operand is absent.
C10_IncorrectCount ==
    (cur.kind = "items" /\ MatchRows # {} /\ pc # "panic") =>
        LET cell == Field(records[First(MatchRows)], "numIncorrect")
        IN  /\ (~IsSome(Attempted) \/ ~IsSome(Correct)) => cell = ""
            /\ (IsSome(Attempted) /\ IsSome(Correct) /\ Unwrap(Correct) <= Unwrap(Attempted)) =>
                   cell = to_string(Unwrap(Attempted) - Unwrap(Correct))
            /\ (Attempted = Some(5) /\ Correct = Some(3)) => cell = "2"

\* C10 witness: a content item with 5 attempted and 3 correct was applied to a
\* row, whose num_incorrect is now "2".
C10_Witness ==
    /\ cur.kind = "items"
    /\ Attempted = Some(5)
    /\ Correct = Some(3)
    /\ MatchRows # {}
    /\ Field(before[First(MatchRows)], "numIncorrect") # "2"
    /\ Field(records[First(MatchRows)], "numIncorrect") = "2"

\* The decimal string of an integer, negative ones with a minus sign.
Decimal(v) == IF v < 0 THEN "-" \o to_string(0 - v) ELSE to_string(v)

\* C11 as stated: every quiz or unit-test attempt that matches a row sets the
\* row's completion_status to "COMPLETE" or "UNCOMPLETED" after is_completed,
\* and its num_attempted, num_correct and num_incorrect to the decimal strings
\* of the attempt's num_attempted, num_correct and num_attempted - num_correct.
C11_AttemptValues ==
    (cur.kind \in {"quizzes", "tests"} /\ MatchRows # {}) =>
        /\ HoldsAttempt(records[First(MatchRows)], cur)
        /\ Field(records[First(MatchRows)], "numIncorrect")
              = Decimal(cur.num_attempted - cur.num_correct)

\* The names of the columns.
Columns == {Header[k] : k \in 1..Len(Header)}

\* Row i has the width it had, and differs from what it was in no column
\* outside `names`.
OnlyChanged(i, names) ==
    /\ Len(records[i]) = Len(before[i])
    /\ \A name \in Columns \ names : Field(records[i], name) = Field(before[i], name)

\* The rows whose column `name` held `value` before the latest iteration.
RowsWith(name, value) == {i \in Rows : Field(before[i], name) = value}

\* C12: a mastery-map item sets the `status` column, and only that column, of
\* the (first) row whose progress_key equals the item's progress_key, to the
\* item's status; every other row is left as it was.
C12_MasteryMapSetsStatus ==
    cur.kind = "mastery_map" =>
        /\ Len(records) = Len(before)
        /\ \A i \in Rows :
              IF RowsWith("progressKey", cur.progress_key) # {}
                 /\ i = First(RowsWith("progressKey", cur.progress_key))
              THEN /\ Field(records[i], "status") = cur.status
                   /\ OnlyChanged(i, {"status"})
              ELSE records[i] = before[i]

\* C12 witness: a mastery-map item has given its status to a row with its
\* progress_key, which held another status.
C12_Witness ==
    /\ cur.kind = "mastery_map"
    /\ \E i \in Rows : /\ Field(before[i], "progressKey") = cur.progress_key
                       /\ Field(before[i], "status") # cur.status
                       /\ Field(records[i], "status") = cur.status

\* C13: a unit-progress item sets `percentage` and `points_earned`, and only
\* those two columns, of the (first) row whose `id` equals the item's unit_id,
\* to the decimal strings of its nested mastery's percentage and points_earned;
\* every other row is left as it was.
C13_UnitProgressSetsMastery ==
    cur.kind = "unit_progress" =>
        /\ Len(records) = Len(before)
        /\ \A i \in Rows :
              IF RowsWith("id", cur.unit_id) # {} /\ i = First(RowsWith("id", cur.unit_id))
              THEN /\ Field(records[i], "percentage")
                         = Decimal(cur.current_mastery_v2.percentage)
                   /\ Field(records[i], "pointsEarned")
                         = Decimal(cur.current_mastery_v2.points_earned)
                   /\ OnlyChanged(i, {"percentage", "pointsEarned"})
              ELSE records[i] = before[i]

\* C13 witness: a unit-progress item has written its mastery to the row whose
\* id is its unit_id, over other values.
C13_Witness ==
    /\ cur.kind = "unit_progress"
    /\ \E i \in Rows : /\ Field(before[i], "id") = cur.unit_id
                       /\ Field(before[i], "percentage") # "50"
                       /\ Field(before[i], "pointsEarned") # "400"
                       /\ Field(records[i], "percentage") = "50"
                       /\ Field(records[i], "pointsEarned") = "400"

\* C14: the overall mastery goes to row 0 only: after step 1 on a table with
\* at least one row, percentage and points_earned of row 0 are the decimal
\* strings of the overall mastery's values, no other column of row 0 and no
\* other row has changed.
C14_OverallMasteryRowZero ==
    cur.kind = "mastery_v2" =>
        /\ Len(records) = Len(before)
        /\ \A i \in Rows :
              IF i = 1
              THEN /\ Field(records[i], "percentage") = Decimal(cur.percentage)
                   /\ Field(records[i], "pointsEarned") = Decimal(cur.points_earned)
                   /\ OnlyChanged(i, {"percentage", "pointsEarned"})
              ELSE records[i] = before[i]

\* C14 witness: step 1 has written the overall mastery to row 0 of a table of
\* two rows, and the second row is as it was.
C14_Witness ==
    /\ cur.kind = "mastery_v2"
    /\ Len(before) = 2
    /\ Field(before[1], "percentage") = ""
    /\ Field(records[1], "percentage") = "7"
    /\ Field(records[1], "pointsEarned") = "1200"
    /\ records[2] = before[2]

\* The names of the seven progress columns.
ProgressNames ==
    {"percentage", "pointsEarned", "status", "completionStatus",
     "numAttempted", "numCorrect", "numIncorrect"}

\* The 0-based indexes of the identity and structural columns: id, type,
\* order, title, slug, relative_url, progress_key, parent_topic and the five
\* parent_* columns.
IdentityColumns ==
    {k \in 0..(Len(Header) - 1) : Header[k + 1] \notin ProgressNames}

\* Table `rows` has the rows of table `old`, in their order, each with its
\* width and with its identity and structural columns as they were.
SameButProgress(rows, old) ==
    /\ Len(rows) = Len(old)
    /\ \A i \in 1..Len(old) :
          /\ Len(rows[i]) = Len(old[i])
          /\ \A c \in IdentityColumns : Get(rows[i], c) = Get(old[i], c)

\* C15: across an update pass the header row, the number of rows, their order
\* and every identity or structural column are unchanged: at every point after
\* reading, the in-memory table differs from the table read in progress
\* columns only, and the file written back has the header that was read and
\* differs from the table read in progress columns only.
C15_IdentityColumnsKept ==
    /\ pc \notin {"idle", "read"} => SameButProgress(records, reader.rows)
    /\ pc = "done" => /\ header = reader.headers
                      /\ header = Header
                      /\ SameButProgress(file, reader.rows)

\* C15 witness: a pass over two rows is over, the file written back differs
\* from the table read in a progress column of each row, under the same header.
C15_Witness ==
    /\ pc = "done"
    /\ Len(reader.rows) = 2
    /\ header = Header
    /\ file[1] # reader.rows[1]
    /\ file[2] # reader.rows[2]
    /\ Field(file[1], "id") # Field(file[2], "id")

\* C18 as stated: the rewrite is atomic: when writing back has failed, the file
\* holds either the whole updated table or exactly its previous content.
C18_AtomicRewrite ==
    pc = "error" =>
        \/ header = reader.headers /\ file = reader.rows
        \/ header = reader.headers /\ file = records

\* Row i (as it was before the latest iteration) is the one the latest source
\* record may write under the rule of its phase: row 0 in phase 1, a row with
\* the record's progress_key in phases 2 and 4, with its unit_id as id in
\* phase 3, a "TopicQuiz" row with its parent_id as parent_topic in phase 5, a
\* "TopicUnitTest" row with its parent_id as parent_id in phase 6.
MatchedUnderRule(i) ==
    CASE cur.kind = "mastery_v2"    -> i = 1
      [] cur.kind = "mastery_map"   -> i \in RowsWith("progressKey", cur.progress_key)
      [] cur.kind = "unit_progress" -> i \in RowsWith("id", cur.unit_id)
      [] cur.kind = "items"         -> i \in RowsWith("progressKey", cur.progress_key)
      [] cur.kind = "quizzes"       -> i \in AttemptRows(cur, "parentTopic", "TopicQuiz")
      [] cur.kind = "tests"         -> i \in AttemptRows(cur, "parentId", "TopicUnitTest")
      [] OTHER -> FALSE

\* Row i of the in-memory table has its seven progress columns empty.
ProgressEmpty(i) ==
    \A c \in 0..(Len(Header) - 1) :
        Header[c + 1] \in ProgressNames => Get(records[i], c) = ""

\* C16: in a merge over a freshly created table, a progress cell is non-empty
\* only if some source wrote it, and a source writes only row 0 (phase 1) or a
\* row it matches under the rule of its phase; so every row matched by no
\* source has its seven progress columns empty.
C16_UnmatchedRowsStayEmpty ==
    pc \notin {"idle", "read"} =>
        /\ \A i \in 1..Len(records) : \A c \in ProgressColumns :
              Get(records[i], c) # "" => written[i][c].phases # {}
        /\ \A i \in 1..Len(records) :
              (\A c \in ProgressColumns : written[i][c].phases = {}) => ProgressEmpty(i)
        /\ \A i \in Rows : Changed(i) => MatchedUnderRule(i)

\* C16 witness: the merge is over; its two loop iterations matched no row but
\* row 0 (a unit-progress item with the course's id), and the second row has
\* its seven progress columns empty in the file.
C16_Witness ==
    /\ pc = "done"
    /\ n = MaxRecords
    /\ Len(file) >= 2
    /\ Field(file[1], "percentage") = "50"
    /\ ProgressEmpty(2)
    /\ file[2] = reader.rows[2]

(***************************************************************************)
(* Properties of update_record, stated for UpdateSpec.                    *)
(***************************************************************************)
\* The column indexes the instructions of the latest call name.
Named == {cur.updates[k][1] : k \in 1..Len(cur.updates)}

\* C17: update column isolation: after update_record on a row with any list
\* of instructions, every column of the row that no instruction names keeps
\* its value, the row keeps its width, and every other row is as it was.
C17_ColumnIsolation ==
    cur.kind = "update_record" =>
        /\ Len(records) = Len(before)
        /\ \A i \in Rows : i # cur.row => records[i] = before[i]
        /\ Len(records[cur.row]) = Len(before[cur.row])
        /\ \A c \in 0..(Len(before[cur.row]) - 1) :
              c \notin Named => Get(records[cur.row], c) = Get(before[cur.row], c)

\* C17 witness: on the first of two rows, a call naming column 1 only has
\* changed column 1 and kept column 0.
C17_Witness ==
    /\ cur.kind = "update_record"
    /\ cur.row = 1
    /\ Len(before) = 2
    /\ Len(before[1]) >= 2
    /\ Named = {1}
    /\ Get(records[1], 1) # Get(before[1], 1)
    /\ Get(records[1], 0) = Get(before[1], 0)
    /\ records[2] = before[2]

\* C19 as stated: a call with an instruction whose column index is greater
\* than or equal to the row's width fails with a missing-column error.
C19_MissingColumnError ==
    ( /\ cur.kind = "update_record"
      /\ \E c \in Named : c >= Len(before[cur.row]) ) =>
        cur.result.kind = "err"

\* The phases of update_csv, its states before the writer is opened.
PhaseStates == {"mastery_v2", "mastery_map", "unit_progress", "items", "quizzes", "tests"}

\* C29: the six phases work on the in-memory copy of the rows and the file is
\* opened for writing only after all of them: while update_csv is in a phase,
\* has finished them, or has been ended by a failing phase, the file holds the
\* header and the rows it held when it was read.
C29_FileKeptUntilPhasesDone ==
    pc \in PhaseStates \cup {"write", "panic"} =>
        /\ header = reader.headers
        /\ file = reader.rows

\* A phase has changed a row of the in-memory copy, a later iteration has
\* ended the call, and the file still holds the rows it was read with.
C29_Witness ==
    /\ pc = "panic"
    /\ records # reader.rows
    /\ file = reader.rows
    /\ file # <<>>


(***************************************************************************)
(* Properties of a repeated merge, stated for IdemSpec.                    *)
(***************************************************************************)
\* C30: the merge is idempotent: when update_csv has run a second time with
\* the same six inputs on the table its first run wrote, the file holds the
\* header and exactly the table the first run wrote.
C30_Idempotent ==
    pc = "done" =>
        /\ header = Header
        /\ file = before

\* Both runs are done; the first one changed the table in two phases at
\* least: a mastery-map record and an item wrote the same row.
C30_Witness ==
    /\ pc = "done"
    /\ before # cur.table
    /\ file = before
    /\ Len(cur.inputs.mastery_map) = 1
    /\ Len(cur.inputs.items) = 1
    /\ \E i \in 1..Len(before) :
         /\ Get(before[i], 15) = "PROFICIENT"
         /\ Get(before[i], 16) = "COMPLETE"

(***************************************************************************)
(* Properties of the whole run, stated for MainSpec.                       *)
(***************************************************************************)
\* The files of the directory that are in the listing.
Listed == {e \in DirEntries : \E k \in 1..Len(files) : files[k] = e.name}

\* The listed batch files of a kind ("items" or "attempts").
Batches(kind) == {e \in Listed : e.kind = kind}

\* The batch with the largest number among the listed ones of a kind.
Latest(kind) == CHOOSE e \in Batches(kind) : \A d \in Batches(kind) : d.number <= e.number

\* The contents of a set of batch files in ascending order of their numbers.
RECURSIVE Ascending(_)
Ascending(S) ==
    IF S = {} THEN <<>>
    ELSE LET e == CHOOSE x \in S : \A d \in S : x.number <= d.number
         IN  <<e.content>> \o Ascending(S \ {e})

\* The row of the table whose id is `id`.
RowWithId(id) == file[CHOOSE i \in 1..Len(file) : Get(file[i], 0) = id]

\* C27: whatever the order of the listing, the batch files of each kind are
\* read in ascending order of their numeric suffix, and once the merge is done
\* a row that several batches of a phase match holds the values of the batch
\* with the largest number: the video row those of the latest item batch, the
\* quiz row and the unit-test row those of the latest attempts batch.
C27_AscendingSuffix ==
    /\ pc \in {"create", "extract", "flush", "flushed", "done"} =>
          /\ file_contents.json_unit_progress_files = Ascending(Batches("items"))
          /\ file_contents.json_quiz_test_progress_files = Ascending(Batches("attempts"))
    /\ (pc = "done" /\ Batches("items") # {}) =>
          LET item == Latest("items").content[1]
              row == RowWithId("u1l1c1")
          IN  /\ Get(row, 16) = item.completion_status
              /\ Get(row, 17) = to_string(Unwrap(Unwrap(item.best_score).num_attempted))
    /\ (pc = "done" /\ Batches("attempts") # {}) =>
          LET quiz == Latest("attempts").content.quizzes[1]
              test == Latest("attempts").content.tests[1]
          IN  /\ Get(RowWithId("u1l2"), 16) = Completed(quiz)
              /\ Get(RowWithId("u1l2"), 17) = to_string(quiz.num_attempted)
              /\ Get(RowWithId("u1l3"), 16) = Completed(test)
              /\ Get(RowWithId("u1l3"), 17) = to_string(test.num_attempted)

\* The run is done on a listing that names item batch 10 before item batch 2
\* (the order of the names as text, too), and the video row holds the values
\* of batch 10.
C27_Witness ==
    /\ pc = "done"
    /\ \E i, j \in 1..Len(files) :
         /\ i < j
         /\ \E e \in Batches("items") : e.number = 10 /\ files[i] = e.name
         /\ \E e \in Batches("items") : e.number = 2 /\ files[j] = e.name
    /\ Get(RowWithId("u1l1c1"), 16) = "COMPLETE"
    /\ Get(RowWithId("u1l1c1"), 17) = "5"

\* <prefix><name> or <prefix><name>.json is in the listing.
Resolves(name) ==
    \E k \in 1..Len(files) :
        \/ files[k] = CharsOf(PrefixArg) \o CharsOf(name)
        \/ files[k] = CharsOf(PrefixArg) \o CharsOf(name) \o CharsOf(".json")

\* The output path holds what it held when the run began.
Untouched ==
    /\ disk.exists = cur.existed
    /\ header = (IF cur.existed THEN Header ELSE <<>>)
    /\ file = (IF cur.existed THEN OldTable ELSE <<>>)

\* C28: once the inputs have been looked for in a listed directory, a tree
\* file or a course progress file that does not resolve has ended the run with
\* a "file not found" error naming it, the output file being neither created
\* nor truncated; and when both resolve the run has not ended this way,
\* whether or not there are batch files.
C28_MissingFileFailsFast ==
    (pc # "read_files" /\ disk.dir) =>
        /\ ~Resolves("contentForPath") =>
              /\ pc = "missing"
              /\ fres = [kind |-> "err", error |-> "MissingFile",
                         message |-> "contentForPath file not found"]
              /\ Untouched
        /\ (Resolves("contentForPath") /\ ~Resolves("courseProgressQuery")) =>
              /\ pc = "missing"
              /\ fres = [kind |-> "err", error |-> "MissingFile",
                         message |-> "courseProgressQuery file not found"]
              /\ Untouched
        /\ (Resolves("contentForPath") /\ Resolves("courseProgressQuery")) =>
              /\ pc \in {"create", "extract", "flush", "flushed", "done"}
              /\ fres.kind # "err"

\* The course progress file is missing next to a tree file and batch files;
\* the run has failed and the old table is still at the output path.
C28_Witness ==
    /\ pc = "missing"
    /\ Resolves("contentForPath")
    /\ ~Resolves("courseProgressQuery")
    /\ Batches("items") # {}
    /\ disk.exists
    /\ file = OldTable
    /\ header = Header

(***************************************************************************)
(* Properties of the Tree Flattener, stated for FlattenSpec.              *)
(***************************************************************************)
\* The array under an Option, empty when absent.
ArrayOf(o) == IF IsSome(o) THEN Unwrap(o) ELSE <<>>

\* The ids of the nodes of an array.
IdsOf(nodes) == [k \in 1..Len(nodes) |-> Unwrap(nodes[k].id)]

\* The ids a lesson-like child stands for: its own, then those of its content
\* items if its type is exactly "Lesson".
LessonIds(lesson) ==
    <<Unwrap(lesson.id)>> \o
    (IF lesson.typename = Some("Lesson") THEN IdsOf(ArrayOf(lesson.curatedChildren))
     ELSE <<>>)

\* The ids a unit stands for: its own, then those of its children in order.
UnitIds(unit) ==
    <<Unwrap(unit.id)>> \o
    Concat([k \in 1..Len(ArrayOf(unit.allOrderedChildren)) |->
               LessonIds(ArrayOf(unit.allOrderedChildren)[k])])

\* The ids of a document in pre-order.
PreOrder(content) ==
    <<Unwrap(content.id)>> \o
    Concat([k \in 1..Len(ArrayOf(content.unitChildren)) |->
               UnitIds(ArrayOf(content.unitChildren)[k])])

\* The node has the fields extract_info requires.
Complete(node) ==
    /\ IsSome(node.id) /\ IsSome(node.typename) /\ IsSome(node.translatedTitle)
    /\ IsSome(node.slug)
    /\ IsSome(node.relativeUrl) \/ IsSome(node.urlWithinCurationNode)

\* Every node the walk visits is complete, the course has its unit array,
\* every unit its children array, and every child of type "Lesson" (and no
\* other need have one) its content-item array.
Walkable(content) ==
    /\ Complete(content)
    /\ IsSome(content.unitChildren)
    /\ \A u \in 1..Len(ArrayOf(content.unitChildren)) :
          LET unit == ArrayOf(content.unitChildren)[u]
          IN  /\ Complete(unit)
              /\ IsSome(unit.allOrderedChildren)
              /\ \A l \in 1..Len(ArrayOf(unit.allOrderedChildren)) :
                    LET lesson == ArrayOf(unit.allOrderedChildren)[l]
                    IN  /\ Complete(lesson)
                        /\ lesson.typename = Some("Lesson") =>
                              /\ IsSome(lesson.curatedChildren)
                              /\ \A c \in 1..Len(ArrayOf(lesson.curatedChildren)) :
                                    Complete(ArrayOf(lesson.curatedChildren)[c])

\* C20: the walk emits rows in pre-order: the course root, then each unit in
\* array order, followed by each of its lesson-like children in array order,
\* each followed by its content items in array order.  Content items are
\* emitted only under a child whose type is exactly "Lesson"; a child of any
\* other type yields exactly one row, and the walk succeeds whether or not it
\* has a content-item array.
C20_PreOrderRows ==
    pc \in {"flush", "flushed", "error"} =>
        /\ fres.kind = "ok" <=> Walkable(course_content)
        /\ fres.kind = "ok" =>
              [i \in 1..Len(file) |-> Field(file[i], "id")] = PreOrder(course_content)

\* C20 witness: the walk of a document has succeeded in which a unit has a
\* child of type "TopicQuiz" without a content-item array and a child of type
\* "Lesson" with a content item, each in its place in the file.
C20_Witness ==
    /\ pc = "flushed"
    /\ fres.kind = "ok"
    /\ \E u \in 1..Len(ArrayOf(course_content.unitChildren)) :
          LET lessons == ArrayOf(ArrayOf(course_content.unitChildren)[u].allOrderedChildren)
          IN  \E q, l \in 1..Len(lessons) :
                 /\ lessons[q].typename = Some("TopicQuiz")
                 /\ ~IsSome(lessons[q].curatedChildren)
                 /\ lessons[l].typename = Some("Lesson")
                 /\ Len(ArrayOf(lessons[l].curatedChildren)) >= 1
                 /\ \E i \in 1..(Len(file) - 1) :
                       /\ Field(file[i], "id") = Unwrap(lessons[l].id)
                       /\ Field(file[i + 1], "id")
                             = Unwrap(ArrayOf(lessons[l].curatedChildren)[1].id)
                       /\ Field(file[i + 1], "parentId") = Unwrap(lessons[l].id)

\* A node in its place: its structural parent (an Option) and its 1-based
\* position in the sibling array it is in.
Placed(node, parent, position) ==
    [node |-> node, parent |-> parent, position |-> position]

\* A lesson-like child in its place, then its content items if its type is
\* exactly "Lesson".
LessonPlaces(lesson, unit, l) ==
    <<Placed(lesson, Some(unit), l)>> \o
    (IF lesson.typename = Some("Lesson")
     THEN [c \in 1..Len(ArrayOf(lesson.curatedChildren)) |->
              Placed(ArrayOf(lesson.curatedChildren)[c], Some(lesson), c)]
     ELSE <<>>)

UnitPlaces(unit, course, u) ==
    <<Placed(unit, Some(course), u)>> \o
    Concat([l \in 1..Len(ArrayOf(unit.allOrderedChildren)) |->
               LessonPlaces(ArrayOf(unit.allOrderedChildren)[l], unit, l)])

\* The nodes of a document in pre-order, each in its place.
Places(content) ==
    <<Placed(content, None, 1)>> \o
    Concat([u \in 1..Len(ArrayOf(content.unitChildren)) |->
               UnitPlaces(ArrayOf(content.unitChildren)[u], content, u)])

\* C21: order invariant: the row of the k-th element of a sibling array (units
\* of the course, children of a unit, content items of a Lesson) has order k,
\* so an array of length N gives the orders 1..N in array order; the root row
\* has order 1.
C21_OrderIsPosition ==
    (pc \in {"flush", "flushed"} /\ fres.kind = "ok") =>
        /\ Len(file) = Len(Places(course_content))
        /\ Field(file[1], "order") = "1"
        /\ \A i \in 1..Len(file) :
              Field(file[i], "order") = Decimal(Places(course_content)[i].position)

\* C21 witness: a Lesson with two content items has been walked; the rows of
\* the two items follow the Lesson's row with orders "1" and "2".
C21_Witness ==
    /\ pc = "flushed"
    /\ fres.kind = "ok"
    /\ \E i \in 1..(Len(file) - 2) :
          /\ Field(file[i], "typeName") = "Lesson"
          /\ Field(file[i + 1], "parentId") = Field(file[i], "id")
          /\ Field(file[i + 2], "parentId") = Field(file[i], "id")
          /\ Field(file[i + 1], "order") = "1"
          /\ Field(file[i + 2], "order") = "2"

\* The relative_url a node gives: its primary field, else its alternate one.
UrlOf(node) ==
    IF IsSome(node.relativeUrl) THEN Unwrap(node.relativeUrl)
    ELSE Unwrap(node.urlWithinCurationNode)

\* C22: parent linkage: parent_id, parent_type, parent_title, parent_slug and
\* parent_relative_url of every non-root row are the id, type, title, slug and
\* relative_url of its structural parent (course for units, unit for
\* lesson-like children, lesson for content items), and so not empty; the five
\* are empty in the root row.
C22_ParentLinkage ==
    (pc \in {"flush", "flushed"} /\ fres.kind = "ok") =>
        /\ Len(file) = Len(Places(course_content))
        /\ \A i \in 1..Len(file) :
              LET parent == Places(course_content)[i].parent
              IN  IF i = 1
                  THEN /\ ~IsSome(parent)
                       /\ Field(file[i], "parentId") = ""
                       /\ Field(file[i], "parentType") = ""
                       /\ Field(file[i], "parentTitle") = ""
                       /\ Field(file[i], "parentSlug") = ""
                       /\ Field(file[i], "parentRelativeUrl") = ""
                  ELSE /\ IsSome(parent)
                       /\ Field(file[i], "parentId") = Unwrap(Unwrap(parent).id)
                       /\ Field(file[i], "parentType") = Unwrap(Unwrap(parent).typename)
                       /\ Field(file[i], "parentTitle") = Unwrap(Unwrap(parent).translatedTitle)
                       /\ Field(file[i], "parentSlug") = Unwrap(Unwrap(parent).slug)
                       /\ Field(file[i], "parentRelativeUrl") = UrlOf(Unwrap(parent))
                       /\ Field(file[i], "parentId") # ""
                       /\ \E j \in 1..(i - 1) :
                             /\ Field(file[j], "id") = Field(file[i], "parentId")
                             /\ Field(file[j], "typeName") = Field(file[i], "parentType")
                             /\ Field(file[j], "title") = Field(file[i], "parentTitle")
                             /\ Field(file[j], "slug") = Field(file[i], "parentSlug")
                             /\ Field(file[j], "relativeUrl")
                                   = Field(file[i], "parentRelativeUrl")

\* C22 witness: the file has a unit under the course, a Lesson under the unit
\* and a content item under the Lesson, each row naming the one above it.
C22_Witness ==
    /\ pc = "flushed"
    /\ fres.kind = "ok"
    /\ \E i \in 1..(Len(file) - 2) :
          /\ Field(file[i], "typeName") = "Unit"
          /\ Field(file[i], "parentId") = Field(file[1], "id")
          /\ Field(file[i + 1], "typeName") = "Lesson"
          /\ Field(file[i + 1], "parentId") = Field(file[i], "id")
          /\ Field(file[i + 2], "parentId") = Field(file[i + 1], "id")
          /\ Field(file[i + 2], "parentType") = "Lesson"

\* C23 as stated: when the walk fails at a node, its partial output is
\* discarded: the output table retains none of the rows the walk produced
\* before the failing node.
C23_FailureDiscardsRows ==
    (pc = "error" /\ fres.kind = "err") => file = <<>>

\* The Option as a cell: the empty string when absent.
Cell(o) == IF IsSome(o) THEN Unwrap(o) ELSE ""

\* The row of a node in its place: the 20 values in the order of the columns,
\* the seven progress columns and any absent optional field empty.
RowOf(place) ==
    <<Unwrap(place.node.id), Unwrap(place.node.typename), Decimal(place.position),
      Unwrap(place.node.translatedTitle), Unwrap(place.node.slug), UrlOf(place.node),
      Cell(place.node.progressKey), Cell(place.node.parentTopic),
      IF IsSome(place.parent) THEN Unwrap(Unwrap(place.parent).id) ELSE "",
      IF IsSome(place.parent) THEN Unwrap(Unwrap(place.parent).typename) ELSE "",
      IF IsSome(place.parent) THEN Unwrap(Unwrap(place.parent).translatedTitle) ELSE "",
      IF IsSome(place.parent) THEN Unwrap(Unwrap(place.parent).slug) ELSE "",
      IF IsSome(place.parent) THEN UrlOf(Unwrap(place.parent)) ELSE "",
      "", "", "", "", "", "", "">>

\* C25: creating the table writes the header line once, before the first
\* record, with the 20 columns in their fixed order (id, type, order, title,
\* slug, relative_url, progress_key, parent_topic, the five parent_* columns,
\* then the seven progress columns); below it comes one row per appended
\* record in append order, each with the record's values in column order and
\* the empty string for an absent optional field.
C25_HeaderThenRows ==
    pc \in {"flush", "flushed", "error"} =>
        /\ header = <<"id", "typeName", "order", "title", "slug", "relativeUrl",
                      "progressKey", "parentTopic", "parentId", "parentType",
                      "parentTitle", "parentSlug", "parentRelativeUrl", "percentage",
                      "pointsEarned", "status", "completionStatus", "numAttempted",
                      "numCorrect", "numIncorrect">>
        /\ Len(file) >= 1
        /\ Len(file) <= Len(Places(course_content))
        /\ fres.kind = "ok" => Len(file) = Len(Places(course_content))
        /\ \A i \in 1..Len(file) :
              /\ file[i] # header
              /\ file[i] = RowOf(Places(course_content)[i])

\* C25 witness: a table of at least three records has been created; its root
\* row has the five parent columns and the seven progress columns empty.
C25_Witness ==
    /\ pc = "flushed"
    /\ header = Header
    /\ Len(file) >= 3
    /\ \A c \in 8..19 : Get(file[1], c) = ""
    /\ Get(file[3], 8) # ""

\* C26: create_csv_file on a path whose directory exists succeeds and leaves
\* a file of length 0 at the path, whether no file was there or one with
\* content, which is discarded; when the directory does not exist it returns
\* an AppError::Io and creates no file.
C26_CreateTruncates ==
    cur.kind = "create_csv_file" =>
        /\ pc = "extract" =>
              /\ disk.dir
              /\ disk.exists
              /\ header = <<>>
              /\ file = <<>>
        /\ disk.dir => pc # "io_error"
        /\ ~disk.dir =>
              /\ pc = "io_error"
              /\ fres = [kind |-> "err", error |-> "Io"]
              /\ ~disk.exists

\* C26 witness: create_csv_file has succeeded on a path that held a table,
\* and the file there is empty.
C26_Witness ==
    /\ cur.kind = "create_csv_file"
    /\ pc = "extract"
    /\ cur.existed
    /\ cur.header = Header
    /\ Len(cur.rows) >= 1
    /\ disk.exists
    /\ header = <<>>
    /\ file = <<>>

(***************************************************************************)
(* Properties of extract_info, stated for InfoSpec.                       *)
(***************************************************************************)
\* The names of the required fields the node of the latest call lacks.
Lacking ==
    {name \in {"id", "__typename", "translatedTitle", "slug"} :
        \/ name = "id" /\ ~IsSome(cur.item.id)
        \/ name = "__typename" /\ ~IsSome(cur.item.typename)
        \/ name = "translatedTitle" /\ ~IsSome(cur.item.translatedTitle)
        \/ name = "slug" /\ ~IsSome(cur.item.slug)}
    \cup (IF ~IsSome(cur.item.relativeUrl) /\ ~IsSome(cur.item.urlWithinCurationNode)
          THEN {"relativeUrl or urlWithinCurationNode"} ELSE {})

\* C24: creating a record from a node fails with a MissingField error naming
\* a field the node lacks when it lacks id, type, title or slug, or both
\* relative-url fields, and only then; relative_url is the primary field when
\* present and otherwise the alternate one; progress_key may be absent and
\* parent_topic is the empty string when absent, neither causing a failure.
C24_MissingFields ==
    (pc = "returned" /\ cur.kind = "extract_info") =>
        IF Lacking # {}
        THEN /\ fres.kind = "err"
             /\ fres.error = "MissingField"
             /\ fres.field \in Lacking
        ELSE /\ fres.kind = "ok"
             /\ fres.value.relative_url =
                   (IF IsSome(cur.item.relativeUrl) THEN "/primary" ELSE "/alternate")
             /\ fres.value.progress_key = cur.item.progressKey
             /\ fres.value.parent_topic =
                   (IF IsSome(cur.item.parentTopic) THEN cur.item.parentTopic ELSE Some(""))

\* C24 witness: a node with only the alternate relative-url field, without
\* progress_key and parent_topic, has given a record with the alternate url,
\* no progress_key and the empty parent_topic.
C24_Witness ==
    /\ pc = "returned"
    /\ cur.kind = "extract_info"
    /\ ~IsSome(cur.item.relativeUrl)
    /\ ~IsSome(cur.item.progressKey)
    /\ ~IsSome(cur.item.parentTopic)
    /\ fres.kind = "ok"
    /\ fres.value.relative_url = "/alternate"
    /\ fres.value.progress_key = None
    /\ fres.value.parent_topic = Some("")

(***************************************************************************)
(* Properties of the Key Decoder, stated for DecodeSpec.                  *)
(***************************************************************************)
\* The string the token decodes to (an Ok or an Err).
Decoded == decode_base64(token.key)

\* The start delimiter of the token's kind: U+0011 for quiz attempts, ':' for
\* unit-test attempts.
StartDelimiter == IF token.kind = "quiz" THEN 17 ELSE 58

\* 1-based positions of a character in a string.
Positions(str, ch) == {k \in 1..Len(str) : str[k] = ch}

\* C3 as stated: the parent id is the substring strictly between the first
\* start delimiter and the first U+000C after it, whatever precedes the start
\* delimiter.
C3_ParentIdBetweenDelimiters ==
    ( /\ dpc \in {"unwrap", "done", "panic"}
      /\ Decoded.kind = "ok"
      /\ Positions(Decoded.value, StartDelimiter) # {}
      /\ \E e \in Positions(Decoded.value, 12) :
            e > First(Positions(Decoded.value, StartDelimiter)) ) =>
        LET from  == First(Positions(Decoded.value, StartDelimiter))
            until == First({e \in Positions(Decoded.value, 12) : e > from})
        IN  dres = Ok(SubSeq(Decoded.value, from + 1, until - 1))

\* C4 as stated: when the token is not valid base64 after padding, or its
\* decoded string lacks the start delimiter or U+000C, decoding ends in an
\* error value and never in a panic.
C4_DecodeErrorValue ==
    ( /\ dpc \in {"unwrap", "done", "panic"}
      /\ \/ Decoded.kind = "err"
         \/ Positions(Decoded.value, StartDelimiter) = {}
         \/ Positions(Decoded.value, 12) = {} ) =>
        /\ dres = Err
        /\ dpc # "panic"

====
